---------------------------- MODULE Spec2Model ----------------------------
(***************************************************************************)
(* Model of the trading analytics platform.                                *)
(*                                                                         *)
(* The browser client (frontend/js/app.js, charts.js, api.js,              *)
(* websocket.js) is modelled from its source.  The server side (ingestion  *)
(* buffer, tick store, resampler, alert evaluator, stream control) has no  *)
(* source in this repository snapshot and is modelled from the design      *)
(* document; those definitions are marked "design document" below.         *)
(*                                                                         *)
(* Conventions.  JavaScript null / undefined / "" / [] / {} are all        *)
(* written <<>> (each use below only ever tests them for falsiness).  An   *)
(* optional number is <<>> or <<n>>.  Symbols are sequences of characters  *)
(* so that trim, toLowerCase, toUpperCase and endsWith are computed.       *)
(* Prices are integers (an integer number of price units); means and       *)
(* variances are kept as exact fractions.                                  *)
(***************************************************************************)
EXTENDS Integers, Sequences, FiniteSets, TLC

(***************************************************************************)
(* Bounds of the model.                                                    *)
(***************************************************************************)
MaxPrice == 2
MaxBars == 2
MaxTime == 2

Null == <<>>
Some(x) == <<x>>

Prices == 1..MaxPrice
Times == 0..MaxTime

Max2(a, b) == IF a >= b THEN a ELSE b
Min2(a, b) == IF a <= b THEN a ELSE b

RECURSIVE SumSeq(_)
SumSeq(s) == IF Len(s) = 0 THEN 0 ELSE s[1] + SumSeq(Tail(s))

SeqRange(s) == {s[i] : i \in 1..Len(s)}

(***************************************************************************)
(* Strings as character sequences.                                         *)
(***************************************************************************)
LowerChars == <<"a", "b", "c", "d", "e", "g", "h", "l", "n", "o", "p", "r",
                "s", "t", "u", "x">>
UpperChars == <<"A", "B", "C", "D", "E", "G", "H", "L", "N", "O", "P", "R",
                "S", "T", "U", "X">>

toLowerChar(c) ==
    IF \E i \in 1..Len(UpperChars) : UpperChars[i] = c
    THEN LowerChars[CHOOSE i \in 1..Len(UpperChars) : UpperChars[i] = c]
    ELSE c

toUpperChar(c) ==
    IF \E i \in 1..Len(LowerChars) : LowerChars[i] = c
    THEN UpperChars[CHOOSE i \in 1..Len(LowerChars) : LowerChars[i] = c]
    ELSE c

toLowerCase(s) == [i \in 1..Len(s) |-> toLowerChar(s[i])]
toUpperCase(s) == [i \in 1..Len(s) |-> toUpperChar(s[i])]

RECURSIVE trimStart(_)
trimStart(s) == IF Len(s) > 0 /\ s[1] = " " THEN trimStart(Tail(s)) ELSE s

RECURSIVE trimEnd(_)
trimEnd(s) ==
    IF Len(s) > 0 /\ s[Len(s)] = " " THEN trimEnd(SubSeq(s, 1, Len(s) - 1)) ELSE s

trim(s) == trimEnd(trimStart(s))

endsWith(s, suffix) ==
    /\ Len(s) >= Len(suffix)
    /\ SubSeq(s, Len(s) - Len(suffix) + 1, Len(s)) = suffix

includes(list, x) == \E i \in 1..Len(list) : list[i] = x

filterOut(list, x) == SelectSeq(list, LAMBDA s : s # x)

usdt == <<"u", "s", "d", "t">>
btcusdt == <<"b", "t", "c">> \o usdt
ethusdt == <<"e", "t", "h">> \o usdt
adausdt == <<"a", "d", "a">> \o usdt
bnbusdt == <<"b", "n", "b">> \o usdt
solusdt == <<"s", "o", "l">> \o usdt
xrpusdt == <<"x", "r", "p">> \o usdt
dogeusdt == <<"d", "o", "g", "e">> \o usdt

(***************************************************************************)
(* State.                                                                  *)
(***************************************************************************)
VARIABLES
    \* Charts (charts.js 6-11)
    currentSymbol, currentData, currentPrice, lastUpdateTime,
    \* the Plotly container 'ohlcvChart': its traces, as last drawn
    plot,
    \* TradingApp (app.js): latest ticks, last seen prices, statistics panel,
    \* the dataSymbol dropdown, loadChartData calls awaiting their responses
    latestTicksData, lastPrices, liveStats, dataSymbol, pendingLoads,
    \* Date.now(), in milliseconds
    now,
    \* history: TRUE when the last writer of Charts.currentData was
    \* updateLastBar, FALSE when it was renderOHLCV
    liveBar,
    \* history: Date.now() at the last Plotly.update of the live price line
    \* and at the last Plotly.restyle of the candlesticks, if any
    lineDrawnAt, barDrawnAt,
    \* TradingApp.availableSymbols and dropdownsInitialized; the options of
    \* the dataSymbol and alertSymbol dropdowns (the placeholder aside), and
    \* the value of the alertSymbol dropdown
    availableSymbols, dropdownsInitialized, symbolOptions, alertSymbol,
    \* the stream service as the client sees it through /stream/status:
    \* [running, symbols]
    server,
    \* the addSymbol / removeSymbol calls in progress, one per caller:
    \* where each stands among its awaits, and its locals
    ops,
    \* Alert Evaluator (design document 4.6): the rule, the latest metric
    \* value, the number of the last evaluation cycle
    alertRule, metric, cycle,
    \* 'alerts' messages on their way to the page; the page's
    \* triggeredAlerts container and the number of toasts shown
    wsAlerts, triggeredAlerts, alertToasts,
    \* history: the current run of cycles with the metric above the
    \* threshold: [len, triggers, count0]
    run,
    \* Ingestion Buffer of one symbol (design document 4.2): the buffered
    \* ticks, oldest first; ticks are named by their push number
    buffer, pushCount,
    \* the flush task: [pc, batch]
    flushTask,
    \* history: ticks evicted; every tick a drain returned, in order; the
    \* last two drains; pushes since the last drain took the buffer, and
    \* the same for the batch in the flush task's hands
    evicted, flushed, drained, sinceDrain, batchPushes,
    \* the buffer's count of ticks pushed since the last flush and its
    \* flag asking for a store flush; history: the flush task's runs so far
    unflushed, flushFlag, flushRuns,
    \* Tick Store (design document 4.3): the stored ticks in write order,
    \* and the rest of the batch an append call is writing
    store, appendBatch,
    \* history: the keys ever handed to the store, the first tick handed
    \* over for each key, whether a stored key was handed over again
    appendedKeys, onceStore, reappended,
    \* Resampler (design document 4.4): the ticks of one symbol, the interval
    \* width asked for, the bars kept incrementally
    resTicks, resWidth, liveBars,
    \* WebSocketClient: the socket's readyState ("null" before connect()),
    \* the backoff state, the pending reconnect timer (its delay), the ping
    \* interval; the page's live indicator
    ws, reconnectDelay, reconnectAttempts, reconnectTimer, pingInterval,
    liveIndicator,
    \* history: how often the analytics and alerts handlers were triggered,
    \* parse failures logged, frames received, and the delays of the
    \* reconnect attempts made since the socket last opened
    invoked, parseErrors, received, attemptDelays,
    \* history: a frame was dispatched to a handler after a parse failure
    recovered,
    \* WebSocketClient under any calls of connect() and disconnect(): the
    \* sockets created so far (readyState of each), this.ws and
    \* this.pingInterval as the index of a socket (0: none), the pending
    \* setTimeout callbacks of reconnect(), the running setInterval timers
    \* (named by the socket whose onopen set them)
    sockets, thisWs, thisPingInterval, reconnectTimers, pingTimers,
    \* history: disconnect() was the last call made; new WebSocket(url) calls
    disconnected, connectCalls,
    \* this.handlers of the client: for each event the handlers registered,
    \* in order; history: the handlers called for the last frame received,
    \* in order, each as <<event, place in its list, handler>>
    handlers, calls,
    \* the autoStartStream call of init(): where it stands among its awaits
    \* (pc), what the status request answered, whether its stop request
    \* completed, and the symbol lists of the start requests it issued
    autoStart,
    \* the alert form (alertName, alertOperator, alertThreshold inputs; the
    \* alertSymbol dropdown is above), the createAlert call in progress
    \* [pc, data], the toast it showed last, the alert rules the server
    \* holds, and TradingApp.alerts (appAlerts)
    alertName, alertOperator, alertThreshold, createCall, formToast,
    serverAlerts, appAlerts

chartVars == <<currentSymbol, currentData, currentPrice, lastUpdateTime, plot,
               latestTicksData, lastPrices, liveStats, dataSymbol,
               pendingLoads, now, liveBar, lineDrawnAt, barDrawnAt>>

drawVars == <<lineDrawnAt, barDrawnAt>>

pageVars == <<availableSymbols, dropdownsInitialized, symbolOptions,
              alertSymbol>>

streamVars == <<server, ops>>

alertVars == <<alertRule, metric, cycle, wsAlerts, triggeredAlerts,
               alertToasts, run>>

bufferVars == <<buffer, pushCount, flushTask, evicted, flushed, drained,
                sinceDrain, batchPushes, unflushed, flushFlag, flushRuns>>

storeVars == <<store, appendBatch, appendedKeys, onceStore, reappended>>

resampleVars == <<resTicks, resWidth, liveBars>>

clientVars == <<sockets, thisWs, thisPingInterval, reconnectTimers,
                pingTimers, disconnected, connectCalls>>

handlerVars == <<handlers, calls>>

socketVars == <<ws, reconnectDelay, reconnectAttempts, reconnectTimer,
                pingInterval, liveIndicator, invoked, parseErrors, received,
                attemptDelays, recovered, clientVars, handlerVars>>

autoVars == <<autoStart>>

formVars == <<alertName, alertOperator, alertThreshold, createCall, formToast,
              serverAlerts, appAlerts>>

vars == <<chartVars, pageVars, streamVars, alertVars, bufferVars, storeVars,
          resampleVars, socketVars, autoVars, formVars>>

\* the variables each part of the model leaves alone
exceptChart == <<pageVars, streamVars, alertVars, bufferVars, storeVars, resampleVars, socketVars, autoVars, formVars>>
exceptStream == <<chartVars, pageVars, alertVars, bufferVars, storeVars, resampleVars, socketVars, autoVars, formVars>>
exceptAlert == <<chartVars, pageVars, streamVars, bufferVars, storeVars, resampleVars, socketVars, autoVars, formVars>>
exceptBuffer == <<chartVars, pageVars, streamVars, alertVars, storeVars, resampleVars, socketVars, autoVars, formVars>>
exceptStore == <<chartVars, pageVars, streamVars, alertVars, bufferVars, resampleVars, socketVars, autoVars, formVars>>
exceptResample == <<chartVars, pageVars, streamVars, alertVars, bufferVars, storeVars, socketVars, autoVars, formVars>>
exceptForm == <<chartVars, pageVars, streamVars, alertVars, bufferVars, storeVars, resampleVars, socketVars, autoVars>>
exceptSocket == <<chartVars, pageVars, streamVars, alertVars, bufferVars, storeVars, resampleVars, autoVars, formVars>>

(***************************************************************************)
(* Bars.  A bar is [timestamp, open, high, low, close, volume]; timestamp  *)
(* is the bar's bucket_start.  The chart is loaded at one interval, of     *)
(* width BarWidth time units.                                              *)
(***************************************************************************)
BarWidth == 2

bucketStart(t, W) == (t \div W) * W

WellFormedBar(b) ==
    /\ b.low <= b.open /\ b.open <= b.high
    /\ b.low <= b.close /\ b.close <= b.high
    /\ b.volume >= 0

\* What POST /data/ohlcv can answer: a series of at most MaxBars well-formed
\* bars in bucket order (the design document's Bar invariant, section 3).
\* The last bar is any well-formed bar; the bars before it are flat bars
\* (open = high = low = close), each at any price.
ServerBars ==
    {b \in [open : Prices, high : Prices, low : Prices, close : Prices] :
        /\ b.low <= b.open /\ b.open <= b.high
        /\ b.low <= b.close /\ b.close <= b.high}

FlatBar(p) == [open |-> p, high |-> p, low |-> p, close |-> p]

OhlcvResponses ==
    {<<>>} \cup UNION {
        {[i \in 1..n |->
            LET b == IF i = n THEN last ELSE FlatBar(f[i])
            IN  [timestamp |-> (i - 1) * BarWidth, open |-> b.open,
                 high |-> b.high, low |-> b.low, close |-> b.close,
                 volume |-> 1]] : f \in [1..(n - 1) -> Prices], last \in ServerBars}
        : n \in 1..MaxBars}

(***************************************************************************)
(* JavaScript number division (IEEE 754): x / 0 is NaN for x = 0, and      *)
(* +Infinity or -Infinity by the sign of x otherwise.  A finite quotient   *)
(* is kept as the fraction num / den with den > 0.                         *)
(***************************************************************************)
Sign(x) == IF x > 0 THEN 1 ELSE IF x < 0 THEN -1 ELSE 0

jsDivide(num, den) ==
    IF den = 0
    THEN [kind |-> IF num = 0 THEN "NaN"
                   ELSE IF num > 0 THEN "Infinity" ELSE "-Infinity",
          num |-> 0, den |-> 1]
    ELSE [kind |-> "finite", num |-> num * Sign(den), den |-> den * Sign(den)]

(***************************************************************************)
(* Statistics of updateLiveStatPrice (app.js 353-402) over the closes of   *)
(* the charted series.  With S the sum and n the count of the closes:      *)
(*   mean      = S / n                                                     *)
(*   variance  = (sum of (p - mean)^2) / n = VarNum / n^3,                 *)
(*               VarNum = sum of (n*p - S)^2                               *)
(*   std       = sqrt(variance), zero exactly when VarNum = 0              *)
(*   zScore    = (price - mean) / std; its square is                       *)
(*               n * (n*price - S)^2 / VarNum, its sign that of            *)
(*               n*price - S                                               *)
(***************************************************************************)
closesOf(data) == [i \in 1..Len(data) |-> data[i].close]

RECURSIVE SumSqDev(_, _, _)
SumSqDev(prices, n, S) ==
    IF Len(prices) = 0 THEN 0
    ELSE (n * prices[1] - S) * (n * prices[1] - S) + SumSqDev(Tail(prices), n, S)

RECURSIVE MinSeq(_)
MinSeq(s) == IF Len(s) = 1 THEN s[1] ELSE Min2(s[1], MinSeq(Tail(s)))

RECURSIVE MaxSeq(_)
MaxSeq(s) == IF Len(s) = 1 THEN s[1] ELSE Max2(s[1], MaxSeq(Tail(s)))

\* (price - mean) / std, app.js 389
zScoreOf(prices, price) ==
    LET n == Len(prices)
        S == SumSeq(prices)
        VarNum == SumSqDev(prices, n, S)
        d == n * price - S
    IN  IF VarNum = 0
        THEN [kind |-> jsDivide(d, 0).kind, num |-> 0, den |-> 1,
              sign |-> Sign(d)]
        ELSE [kind |-> "finite", num |-> n * d * d, den |-> VarNum,
              sign |-> Sign(d)]

\* updateLiveStatPrice with the sample variance (divided by n - 1)
updateLiveStatPriceSample(old, data, price) ==
    IF Len(data) > 0
    THEN LET prices == closesOf(data)
             n == Len(prices)
             S == SumSeq(prices)
         IN  [liveStatPrice |-> Some(price),
              mean |-> [num |-> S, den |-> n],
              variance |-> [num |-> SumSqDev(prices, n, S),
                            den |-> n * n * Max2(n - 1, 1)],
              min |-> MinSeq(prices),
              max |-> MaxSeq(prices),
              percentChange |-> jsDivide((n * price - S) * 100, S),
              zScore |-> zScoreOf(prices, price),
              distanceMean |-> [num |-> n * price - S, den |-> n]]
    ELSE [old EXCEPT !.liveStatPrice = Some(price)]

\* updateLiveStatPrice with the percent change taken from the last close
updateLiveStatPriceFromClose(old, data, price) ==
    IF Len(data) > 0
    THEN LET prices == closesOf(data)
             n == Len(prices)
             S == SumSeq(prices)
         IN  [liveStatPrice |-> Some(price),
              mean |-> [num |-> S, den |-> n],
              variance |-> [num |-> SumSqDev(prices, n, S), den |-> n * n * n],
              min |-> MinSeq(prices),
              max |-> MaxSeq(prices),
              percentChange |->
                  jsDivide((price - prices[n]) * 100, prices[n]),
              zScore |-> zScoreOf(prices, price),
              distanceMean |-> [num |-> n * price - S, den |-> n]]
    ELSE [old EXCEPT !.liveStatPrice = Some(price)]

\* The statistics panel after updateLiveStatPrice(symbol, price); `old` is the
\* panel before.  Every element of the panel exists once displaySummary has
\* run, which loadChartData does before any live update reaches the panel.
updateLiveStatPrice(old, data, price) ==
    IF Len(data) > 0
    THEN LET prices == closesOf(data)
             n == Len(prices)
             S == SumSeq(prices)
         IN  [liveStatPrice |-> Some(price),
              mean |-> [num |-> S, den |-> n],
              variance |-> [num |-> SumSqDev(prices, n, S), den |-> n * n * n],
              min |-> MinSeq(prices),
              max |-> MaxSeq(prices),
              percentChange |-> jsDivide((n * price - S) * 100, S),
              zScore |-> zScoreOf(prices, price),
              distanceMean |-> [num |-> n * price - S, den |-> n]]
    ELSE [old EXCEPT !.liveStatPrice = Some(price)]

\* The panel as displaySummary (app.js 300-343) leaves it: the live cells at
\* their placeholders (mean, std, min and max come from the server's summary,
\* which the next updateLiveStatPrice overwrites).
EmptyStats ==
    [liveStatPrice |-> Null, mean |-> [num |-> 0, den |-> 1],
     variance |-> [num |-> 0, den |-> 1], min |-> 0, max |-> 0,
     percentChange |-> jsDivide(0, 1),
     zScore |-> [kind |-> "finite", num |-> 0, den |-> 1, sign |-> 0],
     distanceMean |-> [num |-> 0, den |-> 1]]

(***************************************************************************)
(* Charts (charts.js).                                                     *)
(***************************************************************************)
updateThrottle == 100

NoPlot == [traces |-> 0, liveY |-> Null, candles |-> <<>>]

candlesOf(data) ==
    [i \in 1..Len(data) |->
        [close |-> data[i].close, high |-> data[i].high, low |-> data[i].low]]

\* Charts.updateLastBar, the series it leaves in Charts.currentData
updateLastBar_mutNoLow(data, price) ==
    IF Len(data) = 0 THEN data
    ELSE LET lastIndex == Len(data)
             c1 == [data[lastIndex] EXCEPT !.close = price]
             c2 == IF price > c1.high THEN [c1 EXCEPT !.high = price] ELSE c1
         IN  [data EXCEPT ![lastIndex] = c2]

updateLastBar_mutFirst(data, price) ==
    IF Len(data) = 0 THEN data
    ELSE LET c1 == [data[1] EXCEPT !.close = price]
             c2 == IF price > c1.high THEN [c1 EXCEPT !.high = price] ELSE c1
             c3 == IF price < c2.low THEN [c2 EXCEPT !.low = price] ELSE c2
         IN  [data EXCEPT ![1] = c3]

updateLastBar(data, price) ==
    IF Len(data) = 0 THEN data
    ELSE LET lastIndex == Len(data)
             lastCandle == data[lastIndex]
             c1 == [lastCandle EXCEPT !.close = price]
             c2 == IF price > c1.high THEN [c1 EXCEPT !.high = price] ELSE c1
             c3 == IF price < c2.low THEN [c2 EXCEPT !.low = price] ELSE c2
         IN  [data EXCEPT ![lastIndex] = c3]

\* Charts.updateLastBar, the chart it leaves: Plotly.restyle of trace 0 when
\* the container holds a plot
restyleLastBar(p, data) ==
    IF Len(data) = 0 \/ p.traces = 0 THEN p
    ELSE [p EXCEPT !.candles = candlesOf(data)]

\* Charts.updateLivePrice gets as far as Plotly.update (charts.js 169-193)
drawsLivePrice(data, lut, p, t) ==
    /\ Len(data) > 0
    /\ t - lut >= updateThrottle
    /\ p.traces >= 3
    /\ Len(data) >= 2

\* Charts.updateLastBar gets as far as Plotly.restyle (charts.js 205-239)
restylesLastBar(data, p) == Len(data) > 0 /\ p.traces # 0

\* Charts.updateLivePrice: <<currentPrice, lastUpdateTime, plot>> afterwards
updateLivePrice(data, price, cp, lut, p, t) ==
    IF Len(data) = 0 THEN <<cp, lut, p>>
    ELSE IF t - lut < updateThrottle THEN <<cp, lut, p>>
    ELSE IF p.traces < 3 THEN <<Some(price), t, p>>
    ELSE IF Len(data) < 2 THEN <<Some(price), t, p>>
    ELSE <<Some(price), t, [p EXCEPT !.liveY = Some(price)]>>

\* Charts.renderOHLCV on a non-empty series: Plotly.newPlot
newPlot(data, livePrice) ==
    [traces |-> IF livePrice # Null /\ Len(data) > 0 THEN 3 ELSE 2,
     liveY |-> livePrice,
     candles |-> candlesOf(data)]

(***************************************************************************)
(* TradingApp: live ticks (app.js 180-249).  A tick snapshot is a function *)
(* from the keys of latest_ticks to [price, timestamp].                    *)
(***************************************************************************)
\* ticks[currentSymbolUpper] || ticks[Charts.currentSymbol.toLowerCase()]
tickDataFor(ticks, symbol) ==
    IF toUpperCase(symbol) \in DOMAIN ticks THEN Some(ticks[toUpperCase(symbol)])
    ELSE IF toLowerCase(symbol) \in DOMAIN ticks
         THEN Some(ticks[toLowerCase(symbol)])
         ELSE Null

\* getPriceChange over every entry of the snapshot: the prices remembered
getPriceChange(last, ticks) ==
    [k \in (DOMAIN last) \cup (DOMAIN ticks) |->
        IF k \in DOMAIN ticks THEN ticks[k].price ELSE last[k]]

\* updateLatestTicks(ticks) when the dataSymbol dropdown holds `selected`
latestTicksUpdate(ticks, selected) ==
    /\ latestTicksData' = ticks
    /\ IF DOMAIN ticks = {}
       THEN UNCHANGED <<currentData, currentPrice, lastUpdateTime, plot,
                        liveStats, lastPrices, liveBar, drawVars>>
       ELSE /\ lastPrices' = getPriceChange(lastPrices, ticks)
            /\ IF selected # Null /\ currentSymbol # Null
                  /\ tickDataFor(ticks, currentSymbol) # Null
               THEN LET livePrice == tickDataFor(ticks, currentSymbol)[1].price
                        lp == updateLivePrice(currentData, livePrice,
                                  currentPrice, lastUpdateTime, plot, now)
                    IN  /\ currentPrice' = lp[1]
                        /\ lastUpdateTime' = lp[2]
                        /\ liveStats' =
                             IF liveStats = Null THEN Null
                             ELSE Some(updateLiveStatPrice(liveStats[1],
                                           currentData, livePrice))
                        /\ currentData' = updateLastBar(currentData, livePrice)
                        /\ plot' = restyleLastBar(lp[3], currentData')
                        /\ liveBar' = IF Len(currentData) = 0 THEN liveBar
                                      ELSE TRUE
                        /\ lineDrawnAt' =
                             IF drawsLivePrice(currentData, lastUpdateTime,
                                               plot, now)
                             THEN Some(now) ELSE lineDrawnAt
                        /\ barDrawnAt' =
                             IF restylesLastBar(currentData, plot)
                             THEN Some(now) ELSE barDrawnAt
               ELSE UNCHANGED <<currentData, currentPrice, lastUpdateTime,
                                plot, liveStats, liveBar, drawVars>>
    /\ UNCHANGED <<currentSymbol, pendingLoads, now>>

updateLatestTicks(ticks) ==
    /\ UNCHANGED exceptChart
    /\ UNCHANGED dataSymbol
    /\ latestTicksUpdate(ticks, dataSymbol)

(***************************************************************************)
(* TradingApp.loadChartData (app.js 252-297): the call up to its await,    *)
(* and its continuation when both responses have arrived.                  *)
(***************************************************************************)
\* the dataSymbol dropdown changes to `symbol` and its listener calls
\* loadChartData (app.js 89-95)
selectSymbol(symbol) ==
    /\ UNCHANGED exceptChart
    /\ symbol \notin pendingLoads
    /\ dataSymbol' = symbol
    /\ pendingLoads' = IF symbol = Null THEN pendingLoads
                       ELSE pendingLoads \cup {symbol}
    /\ UNCHANGED <<currentSymbol, currentData, currentPrice, lastUpdateTime,
                   plot, latestTicksData, lastPrices, liveStats, now, liveBar,
                   drawVars>>

\* a request of the pair failed: the catch block shows a toast
loadChartDataFails(symbol) ==
    /\ UNCHANGED exceptChart
    /\ symbol \in pendingLoads
    /\ pendingLoads' = pendingLoads \ {symbol}
    /\ UNCHANGED <<currentSymbol, currentData, currentPrice, lastUpdateTime,
                   plot, latestTicksData, lastPrices, liveStats, dataSymbol,
                   now, liveBar, drawVars>>

loadChartDataResumes(symbol, ohlcvData) ==
    /\ UNCHANGED exceptChart
    /\ symbol \in pendingLoads
    /\ pendingLoads' = pendingLoads \ {symbol}
    /\ IF Len(ohlcvData) = 0
       THEN /\ plot' = NoPlot      \* Charts.clearChart: Plotly.purge
            /\ UNCHANGED <<currentSymbol, currentData, currentPrice, liveStats,
                           liveBar>>
       ELSE LET livePrice ==
                    IF symbol \in DOMAIN latestTicksData
                    THEN latestTicksData[symbol].price
                    ELSE ohlcvData[Len(ohlcvData)].close
            IN  /\ currentSymbol' = symbol
                /\ currentData' = ohlcvData
                /\ currentPrice' = Some(livePrice)
                /\ plot' = newPlot(ohlcvData, Some(livePrice))
                /\ liveStats' = Some(updateLiveStatPrice(EmptyStats, ohlcvData,
                                                         livePrice))
                /\ liveBar' = FALSE
    /\ UNCHANGED <<lastUpdateTime, latestTicksData, lastPrices, dataSymbol, now,
                   drawVars>>

\* time passes: Date.now() starts at ClockStart and is read every ClockStep
\* milliseconds, MaxClockSteps times
ClockStart == 1000
ClockStep == 50
MaxClockSteps == 2
MaxClock == ClockStart + MaxClockSteps * ClockStep

clockTick ==
    /\ UNCHANGED exceptChart
    /\ now + ClockStep <= MaxClock
    /\ now' = now + ClockStep
    /\ UNCHANGED <<currentSymbol, currentData, currentPrice, lastUpdateTime,
                   plot, latestTicksData, lastPrices, liveStats, dataSymbol,
                   pendingLoads, liveBar, drawVars>>

ChartInit ==
    /\ currentSymbol = Null
    /\ currentData = <<>>
    /\ currentPrice = Null
    /\ lastUpdateTime = 0
    /\ plot = NoPlot
    /\ latestTicksData = <<>>
    /\ lastPrices = <<>>
    /\ liveStats = Null
    /\ dataSymbol = Null
    /\ pendingLoads = {}
    /\ now = ClockStart
    /\ liveBar = FALSE
    /\ lineDrawnAt = Null
    /\ barDrawnAt = Null
    /\ availableSymbols = <<>>
    /\ dropdownsInitialized = FALSE
    /\ symbolOptions = <<>>
    /\ alertSymbol = Null

(***************************************************************************)
(* Stream control: TradingApp.addSymbol and removeSymbol (app.js 576-646)  *)
(* over APIClient.getStreamStatus, stopStream and startStream.             *)
(*                                                                         *)
(* Each call is followed through its awaits: pc is the request it is       *)
(* waiting on ("status", "stop", "start"), "delay" during the 500 ms       *)
(* pause, "idle" once it has returned.  A request is handled by the        *)
(* service at the step that delivers its response; a request can fail      *)
(* instead (fetch rejects or the response is not ok), which takes the      *)
(* call to its catch block.                                                *)
(***************************************************************************)
\* the two callers (two clicks, or two browser tabs) whose calls may overlap
OpIds == {"c1", "c2"}

IdleOp(toast) ==
    [pc |-> "idle", kind |-> "none", symbol |-> <<>>, status |-> Null,
     allSymbols |-> <<>>, stopDone |-> FALSE, toast |-> toast]

\* POST /stream/start and /stream/stop, from the design document: a start
\* replaces the whole tracked set, a stop discards it
serverStart(symbols) == [running |-> TRUE, symbols |-> symbols]

serverStop == [running |-> FALSE, symbols |-> <<>>]

\* const allSymbols = [...status.symbols, symbol]   (app.js 602)
addedSymbols_mutOnlyNew(symbols, symbol) == <<symbol>>

addedSymbols(symbols, symbol) == Append(symbols, symbol)

\* const allSymbols = status.symbols.filter(s => s !== symbol)   (app.js 632)
remainingSymbols(symbols, symbol) == filterOut(symbols, symbol)

\* addSymbol with no check of the symbol's ending
addSymbolCall_mutAnySuffix(p, input) ==
    LET symbol == toLowerCase(trim(input))
    IN  /\ UNCHANGED exceptStream
        /\ ops[p].pc = "idle"
        /\ ops' = [ops EXCEPT ![p] =
                IF Len(symbol) = 0 THEN IdleOp("enter a symbol")
                ELSE [pc |-> "status", kind |-> "add", symbol |-> symbol,
                      status |-> Null, allSymbols |-> <<>>,
                      stopDone |-> FALSE, toast |-> "none"]]
        /\ UNCHANGED server

\* addSymbol up to its first await: the input is trimmed and lower-cased,
\* and refused when empty or not ending in 'usdt'
addSymbolCall(p, input) ==
    LET symbol == toLowerCase(trim(input))
    IN  /\ UNCHANGED exceptStream
        /\ ops[p].pc = "idle"
        /\ ops' = [ops EXCEPT ![p] =
                IF Len(symbol) = 0 THEN IdleOp("enter a symbol")
                ELSE IF ~endsWith(symbol, usdt) THEN IdleOp("should end with usdt")
                ELSE [pc |-> "status", kind |-> "add", symbol |-> symbol,
                      status |-> Null, allSymbols |-> <<>>,
                      stopDone |-> FALSE, toast |-> "none"]]
        /\ UNCHANGED server

\* removeSymbol up to its first await
removeSymbolCall(p, symbol) ==
    /\ UNCHANGED exceptStream
    /\ ops[p].pc = "idle"
    /\ ops' = [ops EXCEPT ![p] =
            [pc |-> "status", kind |-> "remove", symbol |-> symbol,
             status |-> Null, allSymbols |-> <<>>, stopDone |-> FALSE,
             toast |-> "none"]]
    /\ UNCHANGED server

\* removeSymbol's status response with no refusal of the last symbol
statusResponse_mutRemovesLast(p) ==
    LET op == ops[p]
        status == server
        refused ==
            IF op.kind = "add" THEN includes(status.symbols, op.symbol)
            ELSE FALSE
        allSymbols ==
            IF op.kind = "add" THEN addedSymbols(status.symbols, op.symbol)
            ELSE remainingSymbols(status.symbols, op.symbol)
    IN  /\ UNCHANGED exceptStream
        /\ op.pc = "status"
        /\ ops' = [ops EXCEPT ![p] =
                IF refused
                THEN IdleOp("already tracked")
                ELSE [op EXCEPT !.status = Some(status),
                                !.allSymbols = allSymbols,
                                !.pc = IF status.running THEN "stop" ELSE "start"]]
        /\ UNCHANGED server

\* the status response arrives: app.js 593-608 and 623-638
statusResponse(p) ==
    LET op == ops[p]
        status == server
        refused ==
            IF op.kind = "add" THEN includes(status.symbols, op.symbol)
            ELSE Len(status.symbols) <= 1
        allSymbols ==
            IF op.kind = "add" THEN addedSymbols(status.symbols, op.symbol)
            ELSE remainingSymbols(status.symbols, op.symbol)
    IN  /\ UNCHANGED exceptStream
        /\ op.pc = "status"
        /\ ops' = [ops EXCEPT ![p] =
                IF refused
                THEN IdleOp(IF op.kind = "add" THEN "already tracked"
                            ELSE "cannot remove the last symbol")
                ELSE [op EXCEPT !.status = Some(status),
                                !.allSymbols = allSymbols,
                                !.pc = IF status.running THEN "stop" ELSE "start"]]
        /\ UNCHANGED server

\* the stop response arrives; the call then waits 500 ms
stopResponse(p) ==
    /\ UNCHANGED exceptStream
    /\ ops[p].pc = "stop"
    /\ server' = serverStop
    /\ ops' = [ops EXCEPT ![p].pc = "delay", ![p].stopDone = TRUE]

\* the 500 ms have passed: startStream(allSymbols) is issued
delayElapses(p) ==
    /\ UNCHANGED exceptStream
    /\ ops[p].pc = "delay"
    /\ ops' = [ops EXCEPT ![p].pc = "start"]
    /\ UNCHANGED server

\* the start response arrives: the call shows its success toast and returns
startResponse(p) ==
    /\ UNCHANGED exceptStream
    /\ ops[p].pc = "start"
    /\ server' = serverStart(ops[p].allSymbols)
    /\ ops' = [ops EXCEPT ![p] =
            IdleOp(IF ops[p].kind = "add" THEN "added" ELSE "removed")]

\* a request fails: the catch block shows the error and the call returns
requestFails(p) ==
    /\ UNCHANGED exceptStream
    /\ ops[p].pc \in {"status", "stop", "start"}
    /\ ops' = [ops EXCEPT ![p] = IdleOp("error")]
    /\ UNCHANGED server

StreamIdle ==
    /\ server = serverStop
    /\ ops = [p \in OpIds |-> IdleOp("none")]

(***************************************************************************)
(* Alert Evaluator (design document 4.6; no source in this snapshot).  One *)
(* rule is evaluated once per broadcast cycle against the latest metric    *)
(* value.  Disabled -> (enable) -> Armed -> (condition true) -> Triggered  *)
(* -> (cooldown elapses, or the condition has gone false) -> Armed.  Time  *)
(* is counted in cycles; the cooldown window is CooldownCycles cycles.     *)
(***************************************************************************)
Threshold == 1
MaxMetric == 2
CooldownCycles == 2
MaxCycles == 5

Operators == {">", "<", ">=", "<=", "=="}

MetricValues == 0..MaxMetric

compare(value, operator, threshold) ==
    CASE operator = ">" -> value > threshold
      [] operator = "<" -> value < threshold
      [] operator = ">=" -> value >= threshold
      [] operator = "<=" -> value <= threshold
      [] operator = "==" -> value = threshold

NewRule(operator, enabled) ==
    [name |-> "rule", metric |-> "price", operator |-> operator,
     threshold |-> Threshold, enabled |-> enabled,
     state |-> IF enabled THEN "Armed" ELSE "Disabled",
     triggered_count |-> 0, lastTriggered |-> Null]

AlertTriggerEvent(rule, value, cycleNo) ==
    [name |-> rule.name, metric |-> rule.metric, value |-> value,
     operator |-> rule.operator, threshold |-> rule.threshold,
     timestamp |-> cycleNo]

\* PATCH /alerts/{id}/toggle
toggle(rule) ==
    IF rule.enabled
    THEN [rule EXCEPT !.enabled = FALSE, !.state = "Disabled"]
    ELSE [rule EXCEPT !.enabled = TRUE, !.state = "Armed"]

\* Triggered -> Armed: the condition has gone false, or the cooldown window
\* has elapsed since the last trigger
rearm(rule, value, cycleNo) ==
    IF /\ rule.state = "Triggered"
       /\ \/ ~compare(value, rule.operator, rule.threshold)
          \/ cycleNo - rule.lastTriggered[1] >= CooldownCycles
    THEN [rule EXCEPT !.state = "Armed"]
    ELSE rule

evaluate_mutNoDebounce(rule, value, cycleNo) ==
    IF ~rule.enabled
    THEN [rule |-> rule, events |-> <<>>]
    ELSE IF compare(value, rule.operator, rule.threshold)
         THEN [rule |-> [rule EXCEPT !.state = "Triggered",
                                     !.triggered_count = @ + 1,
                                     !.lastTriggered = Some(cycleNo)],
               events |-> <<AlertTriggerEvent(rule, value, cycleNo)>>]
         ELSE [rule |-> [rule EXCEPT !.state = "Armed"], events |-> <<>>]

\* One evaluation of the rule: the rule afterwards and the trigger events
\* emitted.  Disabled rules are skipped.
evaluate(rule, value, cycleNo) ==
    IF ~rule.enabled
    THEN [rule |-> rule, events |-> <<>>]
    ELSE LET r == rearm(rule, value, cycleNo)
         IN  IF r.state = "Armed" /\ compare(value, r.operator, r.threshold)
             THEN [rule |-> [r EXCEPT !.state = "Triggered",
                                      !.triggered_count = @ + 1,
                                      !.lastTriggered = Some(cycleNo)],
                   events |-> <<AlertTriggerEvent(r, value, cycleNo)>>]
             ELSE [rule |-> r, events |-> <<>>]

\* handleTriggeredAlerts (app.js 438-457): every alert of the message gets
\* a div at the top of the container and a toast
RECURSIVE handleTriggeredAlerts(_, _)
handleTriggeredAlerts(container, alerts) ==
    IF Len(alerts) = 0
    THEN [container |-> container, toasts |-> 0]
    ELSE LET rest == handleTriggeredAlerts(<<Head(alerts)>> \o container,
                                           Tail(alerts))
         IN  [container |-> rest.container, toasts |-> rest.toasts + 1]

\* the broadcast task's cycle: the rule is evaluated against the latest
\* metric value and the trigger events are published to the page
evaluationCycle(value) ==
    /\ cycle < MaxCycles
    /\ LET r == evaluate(alertRule, value, cycle + 1)
       IN  /\ alertRule' = r.rule
           /\ wsAlerts' = Append(wsAlerts, r.events)
           /\ run' = IF alertRule.enabled /\ value > alertRule.threshold
                     THEN [run EXCEPT !.len = @ + 1,
                                      !.triggers = @ + Len(r.events)]
                     ELSE [len |-> 0, triggers |-> 0,
                           count0 |-> r.rule.triggered_count]
    /\ metric' = Some(value)
    /\ cycle' = cycle + 1
    /\ UNCHANGED <<triggeredAlerts, alertToasts>>
    /\ UNCHANGED exceptAlert

\* wsClient.on('alerts', ...) (app.js 424): the next message arrives
alertsMessage ==
    /\ wsAlerts # <<>>
    /\ LET h == handleTriggeredAlerts(triggeredAlerts, Head(wsAlerts))
       IN  /\ triggeredAlerts' = h.container
           /\ alertToasts' = alertToasts + h.toasts
    /\ wsAlerts' = Tail(wsAlerts)
    /\ UNCHANGED <<alertRule, metric, cycle, run>>
    /\ UNCHANGED exceptAlert

\* setTimeout(() => alertDiv.remove(), 10000) (app.js 455): the oldest div
\* goes first
alertDivExpires ==
    /\ triggeredAlerts # <<>>
    /\ triggeredAlerts' = SubSeq(triggeredAlerts, 1, Len(triggeredAlerts) - 1)
    /\ UNCHANGED <<alertRule, metric, cycle, wsAlerts, alertToasts, run>>
    /\ UNCHANGED exceptAlert

toggleRule ==
    /\ alertRule' = toggle(alertRule)
    /\ run' = [len |-> 0, triggers |-> 0,
               count0 |-> alertRule.triggered_count]
    /\ UNCHANGED <<metric, cycle, wsAlerts, triggeredAlerts, alertToasts>>
    /\ UNCHANGED exceptAlert

AlertInitWith(operators, enableds) ==
    /\ alertRule \in {NewRule(o, e) : o \in operators, e \in enableds}
    /\ metric = Null
    /\ cycle = 0
    /\ wsAlerts = <<>>
    /\ triggeredAlerts = <<>>
    /\ alertToasts = 0
    /\ run = [len |-> 0, triggers |-> 0, count0 |-> 0]

AlertIdle == AlertInitWith({">"}, {FALSE})

(***************************************************************************)
(* Ingestion Buffer of one symbol (design document 4.2; no source in this  *)
(* snapshot).  A bounded queue: push appends and, when the buffer is full, *)
(* evicts the oldest tick; drain atomically takes all buffered ticks and   *)
(* leaves a fresh buffer.  Ingestion pushes while the flush task drains.   *)
(* A tick is named by its push number.                                     *)
(***************************************************************************)
Capacity == 2
MaxPushes == 4

\* the deployed buffer: capacity and flush threshold (README, Buffer &
\* Storage; design document 4.2)
bufferCapacity == 10000
flushThreshold == 100

\* the flag after a push that brings the count since the last flush to n
flagged_mutAtThreshold(n) == n >= flushThreshold

flagged(n) == n > flushThreshold

push_mutDropsNewest(buf, cap, tick) ==
    IF Len(buf) >= cap
    THEN [buffer |-> buf, evicted |-> <<tick>>]
    ELSE [buffer |-> Append(buf, tick), evicted |-> <<>>]

\* push(tick): the buffer afterwards and the tick evicted, if any
push(buf, cap, tick) ==
    IF Len(buf) >= cap
    THEN [buffer |-> Append(Tail(buf), tick), evicted |-> <<Head(buf)>>]
    ELSE [buffer |-> Append(buf, tick), evicted |-> <<>>]

drain_mutKeepsTicks(buf) == [returned |-> buf, buffer |-> buf]

\* drain(): the ticks returned and the buffer afterwards
drain(buf) == [returned |-> buf, buffer |-> <<>>]

RECURSIVE pushAll(_, _, _)
pushAll(buf, cap, ticks) ==
    IF ticks = <<>> THEN buf
    ELSE pushAll(push(buf, cap, Head(ticks)).buffer, cap, Tail(ticks))

\* an ingestion path pushes the next tick into a buffer of capacity cap
pushInto(cap, maxPushes) ==
    /\ pushCount < maxPushes
    /\ LET r == push(buffer, cap, pushCount + 1)
       IN  /\ buffer' = r.buffer
           /\ evicted' = evicted \cup SeqRange(r.evicted)
    /\ pushCount' = pushCount + 1
    /\ sinceDrain' = sinceDrain + 1
    /\ unflushed' = unflushed + 1
    /\ flushFlag' = flagged(unflushed + 1)
    /\ UNCHANGED <<flushTask, flushed, drained, batchPushes, flushRuns>>
    /\ UNCHANGED exceptBuffer

pushTick == pushInto(Capacity, MaxPushes)

\* the periodic flush task calls drain
drainCall ==
    /\ flushTask.pc = "idle"
    /\ flushTask' = [pc |-> "called", batch |-> <<>>]
    /\ UNCHANGED <<buffer, pushCount, evicted, flushed, drained, sinceDrain,
                   batchPushes, unflushed, flushFlag, flushRuns>>
    /\ UNCHANGED exceptBuffer

\* a run of the flush task, one of at most maxRuns: it calls drain
flushTaskRuns(maxRuns) ==
    /\ flushTask.pc = "idle"
    /\ flushRuns < maxRuns
    /\ flushRuns' = flushRuns + 1
    /\ flushTask' = [pc |-> "called", batch |-> <<>>]
    /\ UNCHANGED <<buffer, pushCount, evicted, flushed, drained, sinceDrain,
                   batchPushes, unflushed, flushFlag>>
    /\ UNCHANGED exceptBuffer

\* drain takes the buffered ticks and leaves the fresh buffer, atomically
drainTakes ==
    /\ flushTask.pc = "called"
    /\ LET d == drain(buffer)
       IN  /\ flushTask' = [pc |-> "taken", batch |-> d.returned]
           /\ buffer' = d.buffer
    /\ batchPushes' = sinceDrain
    /\ sinceDrain' = 0
    /\ unflushed' = 0
    /\ flushFlag' = FALSE
    /\ UNCHANGED <<pushCount, evicted, flushed, drained, flushRuns>>
    /\ UNCHANGED exceptBuffer

\* drain returns its ticks to the flush task
drainReturns ==
    /\ flushTask.pc = "taken"
    /\ flushTask' = [pc |-> "idle", batch |-> <<>>]
    /\ flushed' = flushed \o flushTask.batch
    /\ drained' = IF Len(drained) = 2
                  THEN <<drained[2], flushTask.batch>>
                  ELSE Append(drained, flushTask.batch)
    /\ UNCHANGED <<buffer, pushCount, evicted, sinceDrain, batchPushes,
                   unflushed, flushFlag, flushRuns>>
    /\ UNCHANGED exceptBuffer

BufferInit ==
    /\ buffer = <<>>
    /\ pushCount = 0
    /\ flushTask = [pc |-> "idle", batch |-> <<>>]
    /\ evicted = {}
    /\ flushed = <<>>
    /\ drained = <<>>
    /\ sinceDrain = 0
    /\ batchPushes = 0
    /\ unflushed = 0
    /\ flushFlag = FALSE
    /\ flushRuns = 0

(***************************************************************************)
(* Tick Store (design document 4.3; no source in this snapshot).  Append   *)
(* writes each tick of a batch individually and skips a tick whose         *)
(* (symbol, trade_id) is already stored; a crash in the middle of a batch  *)
(* leaves the ticks written so far.  Query returns the ticks of a symbol   *)
(* with start <= timestamp < end, by ascending timestamp.                  *)
(***************************************************************************)
MaxTradeId == 3

\* the feed's tick for a trade: a trade id names one trade, so a tick
\* delivered again after a reconnect is the same tick
tradeTick(symbol, id) ==
    [symbol |-> symbol, trade_id |-> id, timestamp |-> id \div 2,
     price |-> id, size |-> 1]

FeedTicks ==
    {tradeTick(toUpperCase(btcusdt), id) : id \in 1..MaxTradeId}
        \cup {tradeTick(toUpperCase(ethusdt), 1)}

\* the batches handed to append: one or two ticks, in any order
AppendBatches ==
    {<<t>> : t \in FeedTicks} \cup {<<t, u>> : t \in FeedTicks, u \in FeedTicks}

keyOf(tick) == <<tick.symbol, tick.trade_id>>

keysOf(ticks) == {keyOf(ticks[i]) : i \in 1..Len(ticks)}

appendTick_mutNoDedup(st, tick) == Append(st, tick)

appendTick(st, tick) ==
    IF keyOf(tick) \in keysOf(st) THEN st ELSE Append(st, tick)

RECURSIVE insertByTimestamp(_, _)
insertByTimestamp(sorted, tick) ==
    IF sorted = <<>> THEN <<tick>>
    ELSE IF Head(sorted).timestamp <= tick.timestamp
         THEN <<Head(sorted)>> \o insertByTimestamp(Tail(sorted), tick)
         ELSE <<tick>> \o sorted

RECURSIVE sortByTimestamp(_)
sortByTimestamp(ticks) ==
    IF ticks = <<>> THEN <<>>
    ELSE insertByTimestamp(
             sortByTimestamp(SubSeq(ticks, 1, Len(ticks) - 1)),
             ticks[Len(ticks)])

\* query(symbol, start, end, limit); limit is Null or Some(n)
query(st, symbol, start, end, limit) ==
    LET inRange(t) == /\ t.symbol = symbol
                      /\ start <= t.timestamp
                      /\ t.timestamp < end
        found == sortByTimestamp(SelectSeq(st, inRange))
    IN  IF limit = Null \/ Len(found) <= limit[1]
        THEN found
        ELSE SubSeq(found, 1, limit[1])

\* the flush task calls append with a batch
appendCall(batch) ==
    /\ appendBatch = <<>>
    /\ appendBatch' = batch
    /\ UNCHANGED <<store, appendedKeys, onceStore, reappended>>
    /\ UNCHANGED exceptStore

\* append writes the next tick of its batch
writeTick ==
    /\ appendBatch # <<>>
    /\ LET tick == Head(appendBatch)
       IN  /\ store' = appendTick(store, tick)
           /\ appendedKeys' = appendedKeys \cup {keyOf(tick)}
           /\ onceStore' = IF keyOf(tick) \in appendedKeys
                           THEN onceStore
                           ELSE Append(onceStore, tick)
           /\ reappended' = (reappended \/ keyOf(tick) \in appendedKeys)
    /\ appendBatch' = Tail(appendBatch)
    /\ UNCHANGED exceptStore

\* a crash in the middle of a batch: the rest of the batch is not written
crashMidBatch ==
    /\ appendBatch # <<>>
    /\ appendBatch' = <<>>
    /\ UNCHANGED <<store, appendedKeys, onceStore, reappended>>
    /\ UNCHANGED exceptStore

StoreInit ==
    /\ store = <<>>
    /\ appendBatch = <<>>
    /\ appendedKeys = {}
    /\ onceStore = <<>>
    /\ reappended = FALSE

(***************************************************************************)
(* Resampler (design document 4.4; no source in this snapshot).  Ticks of  *)
(* one symbol are bucketed into buckets of width W aligned to the epoch;   *)
(* a resampler bar is [bucket_start, open, high, low, close, volume].  A   *)
(* bucket without ticks gets no bar.  The last bar is extended as ticks    *)
(* arrive.  Times are in seconds.                                          *)
(***************************************************************************)
MaxTicks == 3

SampleTimes == {0, 30, 45, 60, 90, 130}
SamplePrices == {90, 100, 110}
SampleSizes == {1, 2}
Widths == {30, 60}

newBar(tick, W) ==
    [bucket_start |-> bucketStart(tick.timestamp, W), open |-> tick.price,
     high |-> tick.price, low |-> tick.price, close |-> tick.price,
     volume |-> tick.size]

extendBar_mutKeepsLow(bar, tick) ==
    [bar EXCEPT !.close = tick.price,
                !.high = Max2(@, tick.price),
                !.volume = @ + tick.size]

extendBar(bar, tick) ==
    [bar EXCEPT !.close = tick.price,
                !.high = Max2(@, tick.price),
                !.low = Min2(@, tick.price),
                !.volume = @ + tick.size]

\* the bars after one more tick: the tick extends the last bar when it
\* falls into that bar's bucket, and opens a new bar otherwise
addTick(bars, tick, W) ==
    IF /\ bars # <<>>
       /\ bars[Len(bars)].bucket_start = bucketStart(tick.timestamp, W)
    THEN [bars EXCEPT ![Len(bars)] = extendBar(@, tick)]
    ELSE Append(bars, newBar(tick, W))

\* getBars over ticks in timestamp order
RECURSIVE getBars(_, _)
getBars(ticks, W) ==
    IF ticks = <<>> THEN <<>>
    ELSE addTick(getBars(SubSeq(ticks, 1, Len(ticks) - 1), W),
                 ticks[Len(ticks)], W)

\* a tick with a later timestamp than every tick before it
tickArrives(t, price, size) ==
    /\ Len(resTicks) < MaxTicks
    /\ resTicks # <<>> => t > resTicks[Len(resTicks)].timestamp
    /\ LET tick == [timestamp |-> t, price |-> price, size |-> size]
       IN  /\ resTicks' = Append(resTicks, tick)
           /\ liveBars' = addTick(liveBars, tick, resWidth)
    /\ UNCHANGED resWidth
    /\ UNCHANGED exceptResample

ResampleInitWith(widths) ==
    /\ resTicks = <<>>
    /\ resWidth \in widths
    /\ liveBars = <<>>

ResampleIdle == ResampleInitWith({60})

(***************************************************************************)
(* The page's handler of analytics updates (app.js 410-423): the stream    *)
(* status goes to updateSymbolDropdowns, the latest ticks to               *)
(* updateLatestTicks.  The stream is stopped and started by requests (of   *)
(* this page or of any other client).                                      *)
(***************************************************************************)
currentPage ==
    [availableSymbols |-> availableSymbols,
     dropdownsInitialized |-> dropdownsInitialized,
     options |-> symbolOptions,
     dataSymbol |-> dataSymbol,
     alertSymbol |-> alertSymbol]

\* updateSymbolDropdowns(symbols) (app.js 649-712): the page afterwards.  A
\* dropdown keeps its value when the value is among the new options and
\* falls back to the placeholder otherwise; no change event is fired.
updateSymbolDropdowns(symbols, page) ==
    IF page.availableSymbols = symbols /\ page.dropdownsInitialized
    THEN page
    ELSE [availableSymbols |-> symbols,
          dropdownsInitialized |-> TRUE,
          options |-> symbols,
          dataSymbol |-> IF includes(symbols, page.dataSymbol)
                         THEN page.dataSymbol ELSE Null,
          alertSymbol |-> IF includes(symbols, page.alertSymbol)
                          THEN page.alertSymbol ELSE Null]

\* an analytics update carrying the stream status and `ticks` arrives
analyticsUpdate(ticks) ==
    /\ LET page == updateSymbolDropdowns(server.symbols, currentPage)
       IN  /\ availableSymbols' = page.availableSymbols
           /\ dropdownsInitialized' = page.dropdownsInitialized
           /\ symbolOptions' = page.options
           /\ dataSymbol' = page.dataSymbol
           /\ alertSymbol' = page.alertSymbol
           /\ latestTicksUpdate(ticks, page.dataSymbol)
    /\ UNCHANGED <<streamVars, alertVars, bufferVars, storeVars, resampleVars,
                   socketVars, autoVars, formVars>>

\* the latest_ticks of an analytics update while `symbols` are tracked: one
\* tick per tracked symbol, keyed by the symbol in upper or in lower case
\* (updateLatestTicks looks a symbol up under both, app.js 198-199)
keyedTicks(keys, price) ==
    [k \in keys |-> [price |-> price, timestamp |-> 0]]

TrackedSnapshots(symbols) ==
    {keyedTicks({toUpperCase(s) : s \in SeqRange(symbols)}, MaxPrice),
     keyedTicks(SeqRange(symbols), MaxPrice)}

\* POST /stream/stop and POST /stream/start handled by the service
streamStops ==
    /\ server.running
    /\ server' = serverStop
    /\ UNCHANGED ops
    /\ UNCHANGED exceptStream

streamStarts(symbols) ==
    /\ ~server.running
    /\ server' = serverStart(symbols)
    /\ UNCHANGED ops
    /\ UNCHANGED exceptStream

(***************************************************************************)
(* WebSocketClient (websocket.js): the connection to /ws/analytics, its    *)
(* reconnection with exponential backoff, and the dispatch of messages.    *)
(***************************************************************************)
initialReconnectDelay == 1000
maxReconnectDelay == 30000
maxReconnectAttempts == 10

\* Math.min that never caps
Math_minLeft(a, b) == a

\* Math.min
Math_min(a, b) == IF a <= b THEN a ELSE b

\* A text frame is a sequence of JSON tokens: the six punctuation marks, and
\* any other token is a string literal.
Punctuation == {"{", "}", "[", "]", ":", ","}

isLiteral(tok) == tok \notin Punctuation

\* JSON values: <<"s", text>>, <<"a", elements>>, <<"o", members>> with
\* members a function from the keys to values
jsString(s) == <<"s", s>>
jsArray(elems) == <<"a", elems>>
jsObject(members) == <<"o", members>>

noParse == [ok |-> FALSE, value |-> Null, rest |-> <<>>]
parsed(v, rest) == [ok |-> TRUE, value |-> v, rest |-> rest]

\* a later member of the same key wins
withMember(members, key, v) ==
    [k \in DOMAIN members \cup {key} |-> IF k = key THEN v ELSE members[k]]

emptyMembers == [k \in {} |-> Null]

RECURSIVE parseValue(_)
RECURSIVE parseElements(_, _)
RECURSIVE parseMembers(_, _)

\* elements after "[" or after a ",": value ("," value)* "]"
parseElements(toks, elems) ==
    LET r == parseValue(toks) IN
    IF ~r.ok \/ r.rest = <<>> THEN noParse
    ELSE IF Head(r.rest) = "]"
        THEN parsed(jsArray(Append(elems, r.value)), Tail(r.rest))
    ELSE IF Head(r.rest) = ","
        THEN parseElements(Tail(r.rest), Append(elems, r.value))
    ELSE noParse

\* members after "{" or after a ",": string ":" value ("," ...)* "}"
parseMembers(toks, members) ==
    IF Len(toks) < 2 \/ ~isLiteral(toks[1]) \/ toks[2] # ":" THEN noParse
    ELSE LET r == parseValue(Tail(Tail(toks))) IN
         IF ~r.ok \/ r.rest = <<>> THEN noParse
         ELSE IF Head(r.rest) = "}"
             THEN parsed(jsObject(withMember(members, toks[1], r.value)),
                         Tail(r.rest))
         ELSE IF Head(r.rest) = ","
             THEN parseMembers(Tail(r.rest),
                               withMember(members, toks[1], r.value))
         ELSE noParse

parseValue(toks) ==
    IF toks = <<>> THEN noParse
    ELSE IF isLiteral(Head(toks))
        THEN parsed(jsString(Head(toks)), Tail(toks))
    ELSE IF Head(toks) = "["
        THEN IF Len(toks) >= 2 /\ toks[2] = "]"
                THEN parsed(jsArray(<<>>), Tail(Tail(toks)))
                ELSE parseElements(Tail(toks), <<>>)
    ELSE IF Head(toks) = "{"
        THEN IF Len(toks) >= 2 /\ toks[2] = "}"
                THEN parsed(jsObject(emptyMembers), Tail(Tail(toks)))
                ELSE parseMembers(Tail(toks), emptyMembers)
    ELSE noParse

\* JSON.parse that stops at the end of the first value
JSON_parseLenient(text) ==
    LET r == parseValue(text) IN
    IF r.ok THEN Some(r.value) ELSE Null

\* JSON.parse: Null when it throws, Some(value) otherwise
JSON_parse(text) ==
    LET r == parseValue(text) IN
    IF r.ok /\ r.rest = <<>> THEN Some(r.value) ELSE Null

\* message[key], Null when undefined
member(message, key) ==
    IF message[1] = "o" /\ key \in DOMAIN message[2]
        THEN Some(message[2][key]) ELSE Null

\* an optional value that is the string s
isString(v, s) == v # Null /\ v[1][1] = "s" /\ v[1][2] = s

\* message.alerts && message.alerts.length > 0
hasAlerts(message) ==
    LET a == member(message, "alerts") IN
    /\ a # Null
    /\ \/ a[1][1] = "a" /\ Len(a[1][2]) > 0
       \/ a[1][1] = "s" /\ a[1][2] # ""

\* handleMessage that hands the alerts of every analytics update on
handleMessage_mutAlertsAlways(message) ==
    IF isString(member(message, "type"), "analytics_update")
        THEN <<"analytics", "alerts">>
        ELSE <<>>

\* handleMessage: the handler lists triggered, in order
handleMessage(message) ==
    IF isString(member(message, "type"), "analytics_update")
        THEN IF hasAlerts(message) THEN <<"analytics", "alerts">>
                                   ELSE <<"analytics">>
        ELSE <<>>

\* triggerHandlers(event, data): the calls made, in order
triggerHandlers(event, registered) ==
    IF event \in DOMAIN registered
        THEN [i \in 1..Len(registered[event]) |->
                <<event, i, registered[event][i]>>]
        ELSE <<>>

\* the calls of the triggerHandlers calls for a sequence of events
RECURSIVE triggerAll(_, _)
triggerAll(events, registered) ==
    IF events = <<>> THEN <<>>
    ELSE triggerHandlers(Head(events), registered)
            \o triggerAll(Tail(events), registered)

\* handlers registered per event in a run of the model
MaxHandlers == 2

\* on(event, handler)
on(event, handler) ==
    /\ event \in DOMAIN handlers => Len(handlers[event]) < MaxHandlers
    /\ handlers' =
            IF event \in DOMAIN handlers
                THEN [handlers EXCEPT ![event] = Append(@, handler)]
                ELSE handlers
    /\ UNCHANGED <<ws, reconnectDelay, reconnectAttempts, reconnectTimer,
                   pingInterval, liveIndicator, invoked, parseErrors,
                   received, attemptDelays, recovered, clientVars, calls>>
    /\ UNCHANGED exceptSocket

\* off(event, handler)
off(event, handler) ==
    /\ handlers' =
            IF event \in DOMAIN handlers
                THEN [handlers EXCEPT ![event] = filterOut(@, handler)]
                ELSE handlers
    /\ UNCHANGED <<ws, reconnectDelay, reconnectAttempts, reconnectTimer,
                   pingInterval, liveIndicator, invoked, parseErrors,
                   received, attemptDelays, recovered, clientVars, calls>>
    /\ UNCHANGED exceptSocket

SocketInit ==
    /\ ws = "null"
    /\ reconnectDelay = initialReconnectDelay
    /\ reconnectAttempts = 0
    /\ reconnectTimer = Null
    /\ pingInterval = Null
    /\ liveIndicator = FALSE
    /\ invoked = [analytics |-> 0, alerts |-> 0]
    /\ parseErrors = 0
    /\ received = 0
    /\ attemptDelays = <<>>
    /\ recovered = FALSE
    /\ sockets = <<>>
    /\ thisWs = 0
    /\ thisPingInterval = 0
    /\ reconnectTimers = 0
    /\ pingTimers = {}
    /\ disconnected = FALSE
    /\ connectCalls = 0
    /\ handlers = [analytics |-> <<>>, alerts |-> <<>>, connection |-> <<>>]
    /\ calls = <<>>

\* reconnect() without its bound on the attempts
reconnectUnbounded(attempts, delay, timer) == Some(delay)

\* reconnect(): the timer set, if any
reconnect(attempts, delay, timer) ==
    IF attempts < maxReconnectAttempts THEN Some(delay) ELSE timer

\* wsClient.connect() of setupWebSocket, which runs once; created: whether
\* new WebSocket(url) returned a socket rather than threw
connect(created) ==
    /\ ws = "null" /\ reconnectTimer = Null /\ reconnectAttempts = 0
    /\ IF created
           THEN /\ ws' = "CONNECTING"
                /\ UNCHANGED reconnectTimer
           ELSE /\ reconnectTimer' =
                     reconnect(reconnectAttempts, reconnectDelay,
                               reconnectTimer)
                /\ UNCHANGED ws
    /\ UNCHANGED <<reconnectDelay, reconnectAttempts,
                   pingInterval, liveIndicator, invoked, parseErrors,
                   received, attemptDelays, recovered>>
    /\ UNCHANGED clientVars
    /\ UNCHANGED handlerVars
    /\ UNCHANGED exceptSocket

\* ws.onopen
onopen ==
    /\ ws = "CONNECTING"
    /\ ws' = "OPEN"
    /\ reconnectAttempts' = 0
    /\ reconnectDelay' = initialReconnectDelay
    /\ liveIndicator' = TRUE
    /\ pingInterval' = Some(30000)
    /\ attemptDelays' = <<>>
    /\ UNCHANGED <<reconnectTimer, invoked, parseErrors, received,
                   recovered>>
    /\ UNCHANGED clientVars
    /\ UNCHANGED handlerVars
    /\ UNCHANGED exceptSocket

\* ws.onerror: the connection handler is told 'error', which changes nothing
onerror ==
    /\ ws \in {"CONNECTING", "OPEN"}
    /\ UNCHANGED socketVars
    /\ UNCHANGED exceptSocket

\* ws.onclose
onclose ==
    /\ ws \in {"CONNECTING", "OPEN"}
    /\ ws' = "CLOSED"
    /\ pingInterval' = Null
    /\ liveIndicator' = FALSE
    /\ reconnectTimer' =
            reconnect(reconnectAttempts, reconnectDelay, reconnectTimer)
    /\ UNCHANGED <<reconnectAttempts, reconnectDelay, invoked, parseErrors,
                   received, attemptDelays, recovered>>
    /\ UNCHANGED clientVars
    /\ UNCHANGED handlerVars
    /\ UNCHANGED exceptSocket

\* the callback of reconnect()'s setTimeout, connect() included
reconnectTimerFires(created) ==
    /\ reconnectTimer # Null
    /\ reconnectAttempts' = reconnectAttempts + 1
    /\ reconnectDelay' = Math_min(reconnectDelay * 2, maxReconnectDelay)
    /\ IF created
           THEN /\ ws' = "CONNECTING"
                /\ reconnectTimer' = Null
           ELSE /\ reconnectTimer' =
                     reconnect(reconnectAttempts', reconnectDelay', Null)
                /\ UNCHANGED ws
    /\ attemptDelays' = Append(attemptDelays, reconnectTimer[1])
    /\ UNCHANGED <<pingInterval, liveIndicator, invoked, parseErrors,
                   received, recovered>>
    /\ UNCHANGED clientVars
    /\ UNCHANGED handlerVars
    /\ UNCHANGED exceptSocket

\* frames received in a run of the model
MaxFrames == 2

\* ws.onmessage
onmessage(data) ==
    /\ ws = "OPEN"
    /\ received < MaxFrames
    /\ received' = received + 1
    /\ LET message == JSON_parse(data) IN
       IF message = Null
           THEN /\ parseErrors' = parseErrors + 1
                /\ calls' = <<>>
                /\ UNCHANGED <<invoked, recovered>>
           ELSE LET events == SeqRange(handleMessage(message[1])) IN
                /\ calls' = triggerAll(handleMessage(message[1]), handlers)
                /\ invoked' =
                     [e \in DOMAIN invoked |->
                        IF e \in events THEN invoked[e] + 1 ELSE invoked[e]]
                /\ recovered' =
                     (recovered \/ (parseErrors > 0 /\ events # {}))
                /\ UNCHANGED parseErrors
    /\ UNCHANGED <<ws, reconnectDelay, reconnectAttempts, reconnectTimer,
                   pingInterval, liveIndicator, attemptDelays>>
    /\ UNCHANGED clientVars
    /\ UNCHANGED handlers
    /\ UNCHANGED exceptSocket

(***************************************************************************)
(* WebSocketClient (part_001 176-302) as an object whose connect() and     *)
(* disconnect() may be called at any time.  Every socket made by           *)
(* new WebSocket(url) keeps its own onopen / onerror / onclose callbacks,  *)
(* which act on the client's fields whether or not the socket is still     *)
(* this.ws; close() moves a socket to CLOSING and its close event follows. *)
(***************************************************************************)
\* new WebSocket(url) calls in a run of the model
MaxConnects == 3

Live == {"CONNECTING", "OPEN"}

\* the body of connect(): new WebSocket(url) returned the next socket, or
\* threw and the catch block called reconnect(); timers: the setTimeout
\* callbacks pending when it runs
connectBody(created, attempts, delay, timers) ==
    /\ connectCalls' = connectCalls + 1
    /\ IF created
           THEN /\ sockets' = Append(sockets, "CONNECTING")
                /\ thisWs' = Len(sockets) + 1
                /\ reconnectTimers' = timers
           ELSE /\ reconnectTimers' =
                     IF reconnect(attempts, delay, Null) # Null
                         THEN timers + 1 ELSE timers
                /\ UNCHANGED <<sockets, thisWs>>

\* a caller calls connect()
connectCall(created) ==
    /\ connectCalls < MaxConnects
    /\ disconnected' = FALSE
    /\ connectBody(created, reconnectAttempts, reconnectDelay,
                   reconnectTimers)
    /\ UNCHANGED <<thisPingInterval, pingTimers>>
    /\ UNCHANGED <<ws, reconnectDelay, reconnectAttempts, reconnectTimer,
                   pingInterval, liveIndicator, invoked, parseErrors,
                   received, attemptDelays, recovered>>
    /\ UNCHANGED handlerVars
    /\ UNCHANGED exceptSocket

\* a caller calls disconnect()
disconnect ==
    /\ disconnected' = TRUE
    /\ IF thisWs # 0
           THEN /\ pingTimers' = pingTimers \ {thisPingInterval}
                /\ sockets' =
                     [sockets EXCEPT ![thisWs] =
                        IF @ \in Live THEN "CLOSING" ELSE @]
                /\ thisWs' = 0
           ELSE UNCHANGED <<pingTimers, sockets, thisWs>>
    /\ UNCHANGED <<thisPingInterval, reconnectTimers, connectCalls>>
    /\ UNCHANGED <<ws, reconnectDelay, reconnectAttempts, reconnectTimer,
                   pingInterval, liveIndicator, invoked, parseErrors,
                   received, attemptDelays, recovered>>
    /\ UNCHANGED handlerVars
    /\ UNCHANGED exceptSocket

\* onopen of socket s
socketOpens(s) ==
    /\ sockets[s] = "CONNECTING"
    /\ sockets' = [sockets EXCEPT ![s] = "OPEN"]
    /\ reconnectAttempts' = 0
    /\ reconnectDelay' = initialReconnectDelay
    /\ liveIndicator' = TRUE
    /\ thisPingInterval' = s
    /\ pingTimers' = pingTimers \cup {s}
    /\ UNCHANGED <<thisWs, reconnectTimers, disconnected, connectCalls>>
    /\ UNCHANGED <<ws, reconnectTimer, pingInterval, invoked, parseErrors,
                   received, attemptDelays, recovered>>
    /\ UNCHANGED handlerVars
    /\ UNCHANGED exceptSocket

\* onerror of socket s
socketErrors(s) ==
    /\ sockets[s] # "CLOSED"
    /\ UNCHANGED socketVars
    /\ UNCHANGED exceptSocket

\* onclose of socket s: the connection was lost or refused, or close() was
\* called on it
socketCloses(s) ==
    /\ sockets[s] # "CLOSED"
    /\ sockets' = [sockets EXCEPT ![s] = "CLOSED"]
    /\ pingTimers' = pingTimers \ {thisPingInterval}
    /\ liveIndicator' = FALSE
    /\ reconnectTimers' =
            IF reconnect(reconnectAttempts, reconnectDelay, Null) # Null
                THEN reconnectTimers + 1 ELSE reconnectTimers
    /\ UNCHANGED <<thisWs, thisPingInterval, disconnected, connectCalls>>
    /\ UNCHANGED <<ws, reconnectDelay, reconnectAttempts, reconnectTimer,
                   pingInterval, invoked, parseErrors, received,
                   attemptDelays, recovered>>
    /\ UNCHANGED handlerVars
    /\ UNCHANGED exceptSocket

\* a setTimeout callback of reconnect() runs, connect() included
reconnectTimeout(created) ==
    /\ reconnectTimers > 0
    /\ connectCalls < MaxConnects
    /\ reconnectAttempts' = reconnectAttempts + 1
    /\ reconnectDelay' = Math_min(reconnectDelay * 2, maxReconnectDelay)
    /\ connectBody(created, reconnectAttempts', reconnectDelay',
                   reconnectTimers - 1)
    /\ UNCHANGED <<thisPingInterval, pingTimers, disconnected>>
    /\ UNCHANGED <<ws, reconnectTimer, pingInterval, liveIndicator, invoked,
                   parseErrors, received, attemptDelays, recovered>>
    /\ UNCHANGED handlerVars
    /\ UNCHANGED exceptSocket

(***************************************************************************)
(* autoStartStream (app.js 27-52), called once by init(): wait 1000 ms,    *)
(* ask the stream status, stop a running stream and wait 500 ms, start the *)
(* stream with the default symbols, fill the dropdowns.  Any failed        *)
(* request ends the call in its catch block.                               *)
(***************************************************************************)
defaultSymbols ==
    <<btcusdt, ethusdt, bnbusdt, solusdt, adausdt, xrpusdt, dogeusdt>>

AutoCall(pc) ==
    [pc |-> pc, running |-> Null, stopDone |-> FALSE, started |-> <<>>]

\* the first 1000 ms have passed: getStreamStatus is issued
autoWaitElapses ==
    /\ autoStart.pc = "wait"
    /\ autoStart' = [autoStart EXCEPT !.pc = "status"]
    /\ UNCHANGED <<chartVars, pageVars, streamVars, alertVars, bufferVars,
                   storeVars, resampleVars, socketVars, formVars>>

\* the status response arrives: stopStream is issued when the stream runs,
\* startStream(defaultSymbols) otherwise
autoStatusResponseNoStop ==
    /\ autoStart.pc = "status"
    /\ autoStart' =
            [autoStart EXCEPT !.running = Some(server.running),
                              !.pc = "start",
                              !.started = Append(@, defaultSymbols)]
    /\ UNCHANGED <<chartVars, pageVars, streamVars, alertVars, bufferVars,
                   storeVars, resampleVars, socketVars, formVars>>

autoStatusResponse ==
    /\ autoStart.pc = "status"
    /\ autoStart' =
            IF server.running
            THEN [autoStart EXCEPT !.running = Some(TRUE), !.pc = "stop"]
            ELSE [autoStart EXCEPT !.running = Some(FALSE),
                                   !.pc = "start",
                                   !.started = Append(@, defaultSymbols)]
    /\ UNCHANGED <<chartVars, pageVars, streamVars, alertVars, bufferVars,
                   storeVars, resampleVars, socketVars, formVars>>

\* the stop response arrives; the call then waits 500 ms
autoStopResponse ==
    /\ autoStart.pc = "stop"
    /\ server' = serverStop
    /\ autoStart' = [autoStart EXCEPT !.pc = "delay", !.stopDone = TRUE]
    /\ UNCHANGED <<chartVars, pageVars, ops, alertVars, bufferVars,
                   storeVars, resampleVars, socketVars, formVars>>

\* the 500 ms have passed: startStream(defaultSymbols) is issued
autoDelayElapses ==
    /\ autoStart.pc = "delay"
    /\ autoStart' = [autoStart EXCEPT !.pc = "start",
                                      !.started = Append(@, defaultSymbols)]
    /\ UNCHANGED <<chartVars, pageVars, streamVars, alertVars, bufferVars,
                   storeVars, resampleVars, socketVars, formVars>>

\* the start response arrives: the dropdowns are filled with the defaults
autoStartResponse ==
    /\ autoStart.pc = "start"
    /\ server' = serverStart(autoStart.started[Len(autoStart.started)])
    /\ LET page == updateSymbolDropdowns(defaultSymbols, currentPage)
       IN  /\ availableSymbols' = page.availableSymbols
           /\ dropdownsInitialized' = page.dropdownsInitialized
           /\ symbolOptions' = page.options
           /\ dataSymbol' = page.dataSymbol
           /\ alertSymbol' = page.alertSymbol
    /\ autoStart' = [autoStart EXCEPT !.pc = "done"]
    /\ UNCHANGED <<currentSymbol, currentData, currentPrice, lastUpdateTime,
                   plot, latestTicksData, lastPrices, liveStats,
                   pendingLoads, now, liveBar, drawVars>>
    /\ UNCHANGED <<ops, alertVars, bufferVars, storeVars, resampleVars,
                   socketVars, formVars>>

\* a request fails: the catch block logs the error and the call returns
autoRequestFails ==
    /\ autoStart.pc \in {"status", "stop", "start"}
    /\ autoStart' = [autoStart EXCEPT !.pc = "failed"]
    /\ UNCHANGED <<chartVars, pageVars, streamVars, alertVars, bufferVars,
                   storeVars, resampleVars, socketVars, formVars>>

(***************************************************************************)
(* The alert form and createAlert (app.js 460-495), loadAlerts (498-506).  *)
(* Input texts are sequences of characters; a threshold is kept as the     *)
(* fraction num / den that parseFloat reads.                               *)
(***************************************************************************)
Digits == <<"0", "1", "2", "3", "4", "5", "6", "7", "8", "9">>

isDigit(c) == \E i \in 1..Len(Digits) : Digits[i] = c

digitValue(c) == (CHOOSE i \in 1..Len(Digits) : Digits[i] = c) - 1

\* the longest prefix of s made of digits
RECURSIVE digitsPrefix(_)
digitsPrefix(s) ==
    IF Len(s) > 0 /\ isDigit(s[1])
    THEN <<s[1]>> \o digitsPrefix(Tail(s)) ELSE <<>>

RECURSIVE digitsValue(_, _)
digitsValue(s, acc) ==
    IF Len(s) = 0 THEN acc
    ELSE digitsValue(Tail(s), acc * 10 + digitValue(s[1]))

\* parseFloat that reads the empty prefix as 0
parseFloatOrZero(s) ==
    LET t == trimStart(s)
        signed == Len(t) > 0 /\ t[1] \in {"+", "-"}
        sign == IF Len(t) > 0 /\ t[1] = "-" THEN -1 ELSE 1
        rest == IF signed THEN Tail(t) ELSE t
        int == digitsPrefix(rest)
        afterInt == SubSeq(rest, Len(int) + 1, Len(rest))
        frac == IF Len(afterInt) > 0 /\ afterInt[1] = "."
                THEN digitsPrefix(Tail(afterInt)) ELSE <<>>
    IN  Some([num |-> sign * digitsValue(int \o frac, 0),
              den |-> 10 ^ Len(frac)])

\* parseFloat: leading white space is skipped, then the longest prefix that
\* is a decimal literal (sign, digits, point, digits) is read; Null is NaN
parseFloat(s) ==
    LET t == trimStart(s)
        signed == Len(t) > 0 /\ t[1] \in {"+", "-"}
        sign == IF Len(t) > 0 /\ t[1] = "-" THEN -1 ELSE 1
        rest == IF signed THEN Tail(t) ELSE t
        int == digitsPrefix(rest)
        afterInt == SubSeq(rest, Len(int) + 1, Len(rest))
        frac == IF Len(afterInt) > 0 /\ afterInt[1] = "."
                THEN digitsPrefix(Tail(afterInt)) ELSE <<>>
    IN  IF Len(int) = 0 /\ Len(frac) = 0 THEN Null
        ELSE Some([num |-> sign * digitsValue(int \o frac, 0),
                   den |-> 10 ^ Len(frac)])

NoCall == [pc |-> "idle", data |-> Null]

FormInit ==
    /\ alertName = <<>>
    /\ alertOperator = ">"
    /\ alertThreshold = <<>>
    /\ createCall = NoCall
    /\ formToast = "none"
    /\ serverAlerts = <<>>
    /\ appAlerts = <<>>

\* alert rules created in a run of the model
MaxAlerts == 2

\* the user fills the form
fillAlertForm(name, symbol, operator, threshold) ==
    /\ createCall.pc = "idle"
    /\ Len(serverAlerts) < MaxAlerts
    /\ symbol = Null \/ includes(symbolOptions, symbol)
    /\ alertName' = name
    /\ alertSymbol' = symbol
    /\ alertOperator' = operator
    /\ alertThreshold' = threshold
    /\ UNCHANGED <<createCall, formToast, serverAlerts, appAlerts>>
    /\ UNCHANGED <<availableSymbols, dropdownsInitialized, symbolOptions>>
    /\ UNCHANGED <<chartVars, streamVars, alertVars, bufferVars, storeVars,
                   resampleVars, socketVars, autoVars>>

\* createAlert up to its first await
createAlertCall ==
    LET name == trim(alertName)
        symbol == alertSymbol
        threshold == parseFloat(alertThreshold)
    IN  /\ createCall.pc = "idle"
        /\ IF name = <<>> \/ symbol = Null \/ threshold = Null
           THEN /\ formToast' = "warning"
                /\ UNCHANGED createCall
           ELSE /\ createCall' =
                     [pc |-> "create",
                      data |-> Some([name |-> name,
                                     condition |->
                                        [metric |-> "price",
                                         operator |-> alertOperator,
                                         threshold |-> threshold[1],
                                         symbol |-> symbol,
                                         symbol2 |-> Null],
                                     enabled |-> TRUE])]
                /\ UNCHANGED formToast
        /\ UNCHANGED <<alertName, alertOperator, alertThreshold, serverAlerts,
                       appAlerts>>
        /\ UNCHANGED exceptForm

\* POST /alerts/ answers: the server holds the rule; loadAlerts is called
createAlertResponse ==
    /\ createCall.pc = "create"
    /\ serverAlerts' = Append(serverAlerts, createCall.data[1])
    /\ formToast' = "success"
    /\ createCall' = [createCall EXCEPT !.pc = "load"]
    /\ UNCHANGED <<alertName, alertOperator, alertThreshold, appAlerts>>
    /\ UNCHANGED exceptForm

\* POST /alerts/ fails: the catch block shows the error
createAlertFails ==
    /\ createCall.pc = "create"
    /\ formToast' = "error"
    /\ createCall' = NoCall
    /\ UNCHANGED <<alertName, alertOperator, alertThreshold, serverAlerts,
                   appAlerts>>
    /\ UNCHANGED exceptForm

\* loadAlerts returns, with the list or after logging a failure; the form
\* is cleared
loadAlertsReturns(loaded) ==
    /\ createCall.pc = "load"
    /\ appAlerts' = IF loaded THEN serverAlerts ELSE appAlerts
    /\ alertName' = <<>>
    /\ alertSymbol' = Null
    /\ alertThreshold' = <<>>
    /\ createCall' = NoCall
    /\ UNCHANGED <<alertOperator, formToast, serverAlerts>>
    /\ UNCHANGED <<availableSymbols, dropdownsInitialized, symbolOptions>>
    /\ UNCHANGED <<chartVars, streamVars, alertVars, bufferVars, storeVars,
                   resampleVars, socketVars, autoVars>>

\* the parts of the client that a specification leaves idle
ClientIdle == SocketInit /\ autoStart = AutoCall("off") /\ FormInit

(***************************************************************************)
(* SpecChart: one charted symbol, its series loaded from the server and    *)
(* then driven by live tick snapshots.                                     *)
(***************************************************************************)
\* snapshots of latest_ticks: none, one tick of the charted symbol, or one
\* tick of another symbol
ChartSnapshots ==
    {<<>>}
    \cup {[k \in {toUpperCase(btcusdt)} |-> [price |-> p, timestamp |-> t]] :
            p \in Prices, t \in Times}
    \cup {[k \in {toUpperCase(ethusdt)} |-> [price |-> 1, timestamp |-> 0]]}

\* the user picks the symbol to chart until a series is charted; the series
\* is then driven by the live snapshots
NextChart ==
    \/ \E symbol \in {Null, btcusdt} :
            currentSymbol = Null /\ selectSymbol(symbol)
    \/ \E symbol \in pendingLoads : loadChartDataFails(symbol)
    \/ \E symbol \in pendingLoads, ohlcvData \in OhlcvResponses :
            loadChartDataResumes(symbol, ohlcvData)
    \/ \E ticks \in ChartSnapshots : updateLatestTicks(ticks)

InitChart ==
    /\ ChartInit /\ StreamIdle
    /\ AlertIdle /\ BufferInit /\ StoreInit /\ ResampleIdle
    /\ ClientIdle

SpecChart == InitChart /\ [][NextChart]_vars

(***************************************************************************)
(* SpecStream: callers adding and removing symbols on a stream that is     *)
(* stopped or already tracks one or two symbols.                           *)
(***************************************************************************)
AddInputs ==
    {<<>>, <<" ">>, <<"b", "t", "c">>, btcusdt,
     <<" ">> \o toUpperCase(ethusdt), adausdt \o <<" ">>}

RemoveInputs == {btcusdt, ethusdt, toUpperCase(ethusdt)}

StreamInit ==
    /\ server \in {serverStop, serverStart(<<btcusdt>>),
                   serverStart(<<btcusdt, ethusdt>>)}
    /\ ops = [p \in OpIds |-> IdleOp("none")]

NextStream ==
    \/ \E p \in OpIds, input \in AddInputs : addSymbolCall(p, input)
    \/ \E p \in OpIds, symbol \in RemoveInputs : removeSymbolCall(p, symbol)
    \/ \E p \in OpIds : statusResponse(p)
    \/ \E p \in OpIds : stopResponse(p)
    \/ \E p \in OpIds : delayElapses(p)
    \/ \E p \in OpIds : startResponse(p)
    \/ \E p \in OpIds : requestFails(p)

InitStream ==
    /\ StreamInit /\ ChartInit
    /\ AlertIdle /\ BufferInit /\ StoreInit /\ ResampleIdle
    /\ ClientIdle

SpecStream == InitStream /\ [][NextStream]_vars

(***************************************************************************)
(* SpecAddPair: two callers each call addSymbol once, one for adausdt and  *)
(* one for ethusdt, at any time relative to each other.                    *)
(***************************************************************************)
PairInput(p) == IF p = "c1" THEN adausdt \o <<" ">>
                            ELSE <<" ">> \o toUpperCase(ethusdt)

NextAddPair ==
    \/ \E p \in OpIds : ops[p].toast = "none" /\ addSymbolCall(p, PairInput(p))
    \/ \E p \in OpIds : statusResponse(p)
    \/ \E p \in OpIds : stopResponse(p)
    \/ \E p \in OpIds : delayElapses(p)
    \/ \E p \in OpIds : startResponse(p)
    \/ \E p \in OpIds : requestFails(p)

InitAddPair ==
    /\ StreamInit /\ ChartInit
    /\ AlertIdle /\ BufferInit /\ StoreInit /\ ResampleIdle
    /\ ClientIdle

SpecAddPair == InitAddPair /\ [][NextAddPair]_vars

(***************************************************************************)
(* SpecAlert: evaluation cycles of one rule, with any operator, enabled or *)
(* disabled at the start, toggled at any time; the page shows the trigger  *)
(* events it receives.                                                     *)
(***************************************************************************)
NextAlert ==
    \/ \E value \in MetricValues : evaluationCycle(value)
    \/ alertsMessage
    \/ alertDivExpires
    \/ toggleRule

InitAlert ==
    /\ AlertInitWith(Operators, BOOLEAN)
    /\ ChartInit /\ StreamIdle /\ BufferInit /\ StoreInit /\ ResampleIdle
    /\ ClientIdle

SpecAlert == InitAlert /\ [][NextAlert]_vars

(***************************************************************************)
(* SpecBuffer: pushes to one symbol's buffer interleaved with the flush    *)
(* task's drains.                                                          *)
(***************************************************************************)
NextBuffer ==
    \/ pushTick
    \/ drainCall
    \/ drainTakes
    \/ drainReturns

InitBuffer ==
    /\ BufferInit
    /\ ChartInit /\ StreamIdle /\ AlertIdle /\ StoreInit /\ ResampleIdle
    /\ ClientIdle

SpecBuffer == InitBuffer /\ [][NextBuffer]_vars

(***************************************************************************)
(* SpecFlush: the deployed buffer (capacity 10,000, flush threshold 100)   *)
(* under up to MaxFlushPushes pushes and MaxFlushRuns runs of the flush    *)
(* task, at any moment between or during the pushes.                       *)
(***************************************************************************)
MaxFlushPushes == 103
MaxFlushRuns == 1

NextFlush ==
    \/ pushInto(bufferCapacity, MaxFlushPushes)
    \/ flushTaskRuns(MaxFlushRuns)
    \/ drainTakes
    \/ drainReturns

InitFlush ==
    /\ BufferInit
    /\ ChartInit /\ StreamIdle /\ AlertIdle /\ StoreInit /\ ResampleIdle
    /\ ClientIdle

SpecFlush == InitFlush /\ [][NextFlush]_vars

(***************************************************************************)
(* SpecStore: batches of feed ticks appended in any order, any tick any    *)
(* number of times, with crashes in the middle of a batch.                 *)
(***************************************************************************)
NextStore ==
    \/ \E batch \in AppendBatches : appendCall(batch)
    \/ writeTick
    \/ crashMidBatch

InitStore ==
    /\ StoreInit
    /\ ChartInit /\ StreamIdle /\ AlertIdle /\ BufferInit /\ ResampleIdle
    /\ ClientIdle

SpecStore == InitStore /\ [][NextStore]_vars

(***************************************************************************)
(* SpecResample: ticks of one symbol arriving with strictly increasing     *)
(* timestamps, resampled at one of two interval widths.                    *)
(***************************************************************************)
NextResample ==
    \E t \in SampleTimes, price \in SamplePrices, size \in SampleSizes :
        tickArrives(t, price, size)

InitResample ==
    /\ ResampleInitWith(Widths)
    /\ ChartInit /\ StreamIdle /\ AlertIdle /\ BufferInit /\ StoreInit
    /\ ClientIdle

SpecResample == InitResample /\ [][NextResample]_vars

(***************************************************************************)
(* SpecTracked: the stream is stopped and started with one symbol set      *)
(* after another while the page receives analytics updates and charts a    *)
(* tracked symbol.                                                         *)
(***************************************************************************)
TrackedSets == {<<btcusdt>>, <<ethusdt>>, <<btcusdt, ethusdt>>}

OneBarResponses == {r \in OhlcvResponses : Len(r) = 1 /\ r[1].close = r[1].open}

NextTracked ==
    \/ streamStops
    \/ \E symbols \in TrackedSets : streamStarts(symbols)
    \/ \E ticks \in TrackedSnapshots(server.symbols) : analyticsUpdate(ticks)
    \/ \E symbol \in SeqRange(symbolOptions) : selectSymbol(symbol)
    \/ \E symbol \in pendingLoads, ohlcvData \in OneBarResponses :
            loadChartDataResumes(symbol, ohlcvData)

InitTracked ==
    /\ ChartInit /\ StreamIdle
    /\ AlertIdle /\ BufferInit /\ StoreInit /\ ResampleIdle
    /\ ClientIdle

SpecTracked == InitTracked /\ [][NextTracked]_vars

(***************************************************************************)
(* SpecLive: as SpecChart, with time passing between the live snapshots    *)
(* and with snapshots keyed in either case.                                *)
(***************************************************************************)
LiveSnapshots ==
    {<<>>}
        \cup {keyedTicks({toUpperCase(btcusdt)}, p) : p \in Prices}
        \cup {keyedTicks({btcusdt}, p) : p \in Prices}

\* the series answered: MaxBars flat bars
LiveResponses ==
    {r \in OhlcvResponses :
        Len(r) = MaxBars /\ \A i \in 1..Len(r) : r[i].high = r[i].low}

NextLive ==
    \/ \E symbol \in {Null, btcusdt} :
            currentSymbol = Null /\ selectSymbol(symbol)
    \/ \E symbol \in pendingLoads : loadChartDataFails(symbol)
    \/ \E symbol \in pendingLoads, ohlcvData \in LiveResponses :
            loadChartDataResumes(symbol, ohlcvData)
    \/ \E ticks \in LiveSnapshots : updateLatestTicks(ticks)
    \/ clockTick

InitLive ==
    /\ ChartInit /\ StreamIdle
    /\ AlertIdle /\ BufferInit /\ StoreInit /\ ResampleIdle
    /\ ClientIdle

SpecLive == InitLive /\ [][NextLive]_vars

(***************************************************************************)
(* SpecClient: a WebSocketClient whose connect() and disconnect() are      *)
(* called at any time, with the sockets' events in any order.              *)
(***************************************************************************)
NextClient ==
    \/ \E created \in BOOLEAN : connectCall(created)
    \/ disconnect
    \/ \E s \in DOMAIN sockets : socketOpens(s)
    \/ \E s \in DOMAIN sockets : socketErrors(s)
    \/ \E s \in DOMAIN sockets : socketCloses(s)
    \/ \E created \in BOOLEAN : reconnectTimeout(created)

InitClient ==
    /\ ChartInit /\ StreamIdle
    /\ AlertIdle /\ BufferInit /\ StoreInit /\ ResampleIdle
    /\ ClientIdle

SpecClient == InitClient /\ [][NextClient]_vars

(***************************************************************************)
(* SpecLoadPair: the user picks btcusdt or ethusdt in the dataSymbol       *)
(* dropdown at any time, also while an earlier loadChartData call is       *)
(* waiting; every request is answered, with the series of its own symbol,  *)
(* in any order; live snapshots keep arriving.                             *)
(***************************************************************************)
\* the answer of getOHLCV for a symbol: one bar, opened at 1 for btcusdt
\* and at MaxPrice for any other symbol
seriesOf(symbol) ==
    LET p == IF symbol = btcusdt THEN 1 ELSE MaxPrice
    IN  <<[timestamp |-> 0, open |-> p, high |-> p, low |-> p, close |-> p,
           volume |-> 1]>>

NextLoadPair ==
    \/ \E symbol \in {btcusdt, ethusdt} : selectSymbol(symbol)
    \/ \E symbol \in pendingLoads :
            loadChartDataResumes(symbol, seriesOf(symbol))
    \/ \E ticks \in TrackedSnapshots(<<btcusdt, ethusdt>>) :
            updateLatestTicks(ticks)

InitLoadPair ==
    /\ ChartInit /\ StreamIdle
    /\ AlertIdle /\ BufferInit /\ StoreInit /\ ResampleIdle
    /\ ClientIdle

SpecLoadPair == InitLoadPair /\ [][NextLoadPair]_vars

(***************************************************************************)
(* SpecSocket: the WebSocket client connecting, failing, reconnecting and  *)
(* receiving frames, well-formed or not.                                   *)
(***************************************************************************)
Frames ==
    {<<"{">>,
     <<"{", "type", ":", "analytics_update">>,
     <<"{", "type", ":", "analytics_update", "}", "}">>,
     <<"[", "a1", ",", "]">>,
     <<"{", "}">>,
     <<"a1">>,
     <<"{", "type", ":", "pong", "}">>,
     <<"{", "type", ":", "analytics_update", "}">>,
     <<"{", "type", ":", "analytics_update", ",", "alerts", ":", "[", "]",
       "}">>,
     <<"{", "type", ":", "analytics_update", ",", "alerts", ":", "[", "a1",
       "]", "}">>,
     <<"{", "alerts", ":", "[", "a1", ",", "a1", "]", ",", "type", ":",
       "analytics_update", "}">>}

NextSocket ==
    \/ \E created \in BOOLEAN : connect(created)
    \/ onopen
    \/ onerror
    \/ onclose
    \/ \E created \in BOOLEAN : reconnectTimerFires(created)
    \/ \E data \in Frames : onmessage(data)

InitSocket ==
    /\ ChartInit /\ StreamIdle
    /\ AlertIdle /\ BufferInit /\ StoreInit /\ ResampleIdle
    /\ ClientIdle

SpecSocket == InitSocket /\ [][NextSocket]_vars

(***************************************************************************)
(* SpecDispatch: handlers are registered and removed, then the client      *)
(* connects (the order of setupWebSocket) and receives frames.             *)
(***************************************************************************)
HandlerEvents == {"analytics", "alerts", "update"}

Handlers == {"h1", "h2"}

NextDispatch ==
    \/ \E event \in HandlerEvents, handler \in Handlers :
            ws = "null" /\ on(event, handler)
    \/ \E event \in HandlerEvents, handler \in Handlers :
            ws = "null" /\ off(event, handler)
    \/ connect(TRUE)
    \/ onopen
    \/ \E data \in Frames : onmessage(data)

InitDispatch ==
    /\ ChartInit /\ StreamIdle
    /\ AlertIdle /\ BufferInit /\ StoreInit /\ ResampleIdle
    /\ ClientIdle

SpecDispatch == InitDispatch /\ [][NextDispatch]_vars

(***************************************************************************)
(* SpecAuto: the page starts while the stream is stopped, tracks one       *)
(* symbol, or tracks the defaults already; analytics updates keep          *)
(* arriving.                                                               *)
(***************************************************************************)
NextAuto ==
    \/ autoWaitElapses
    \/ autoStatusResponse
    \/ autoStopResponse
    \/ autoDelayElapses
    \/ autoStartResponse
    \/ autoRequestFails
    \/ \E ticks \in {<<>>} \cup TrackedSnapshots(server.symbols) :
            analyticsUpdate(ticks)

InitAuto ==
    /\ server \in {serverStop, serverStart(<<btcusdt>>),
                   serverStart(defaultSymbols)}
    /\ ops = [p \in OpIds |-> IdleOp("none")]
    /\ ChartInit
    /\ AlertIdle /\ BufferInit /\ StoreInit /\ ResampleIdle
    /\ SocketInit /\ autoStart = AutoCall("wait") /\ FormInit

SpecAuto == InitAuto /\ [][NextAuto]_vars

(***************************************************************************)
(* SpecForm: the user fills the alert form, well or badly, and creates     *)
(* alerts while the stream tracks one symbol.                              *)
(***************************************************************************)
FormNames == {<<>>, <<" ">>, <<"a">>, <<" ", "a", " ">>}

FormThresholds ==
    {<<>>, <<" ">>, <<"x">>, <<"-">>, <<".">>, <<"x", "1">>,
     <<"1">>, <<"1", "x">>, <<" ", "-", "2">>, <<".", "5">>}

NextForm ==
    \/ \E name \in FormNames, symbol \in {Null, btcusdt},
          operator \in {">", "<="}, threshold \in FormThresholds :
            fillAlertForm(name, symbol, operator, threshold)
    \/ createAlertCall
    \/ createAlertResponse
    \/ createAlertFails
    \/ \E loaded \in BOOLEAN : loadAlertsReturns(loaded)
    \/ analyticsUpdate(<<>>)

InitForm ==
    /\ server = serverStart(<<btcusdt>>)
    /\ ops = [p \in OpIds |-> IdleOp("none")]
    /\ ChartInit
    /\ AlertIdle /\ BufferInit /\ StoreInit /\ ResampleIdle
    /\ ClientIdle

SpecForm == InitForm /\ [][NextForm]_vars

(***************************************************************************)
(* Claims about the charted series and the statistics panel (SpecChart).   *)
(***************************************************************************)
\* the live update of updateLatestTicks(ticks) reaches Charts.updateLastBar
\* with a series to update (app.js 196-212, charts.js 206)
reachesLastBar(ticks) ==
    /\ DOMAIN ticks # {}
    /\ dataSymbol # Null /\ currentSymbol # Null
    /\ tickDataFor(ticks, currentSymbol) # Null
    /\ Len(currentData) > 0

tickOf(ticks) == tickDataFor(ticks, currentSymbol)[1]

lastBar(data) == data[Len(data)]

\* C6: when every close price in the statistics window is equal (the
\* standard deviation is 0), the z-score shown for any live price, equal to
\* the mean or not, is 0 and never NaN or infinite.
C6_ZScoreZeroOnConstantWindow ==
    (liveStats # Null /\ liveStats[1].liveStatPrice # Null
        /\ liveStats[1].variance.num = 0)
    => (liveStats[1].zScore.kind = "finite" /\ liveStats[1].zScore.num = 0)

\* C7: every bar of the charted series satisfies low <= open <= high and
\* low <= close <= high in every reachable state, and Charts.updateLastBar
\* with a price leaves the last bar with close = price,
\* high = max(old high, price) and low = min(old low, price).
C7_BarsStayWellFormed ==
    /\ [](\A i \in 1..Len(currentData) :
            /\ currentData[i].low <= currentData[i].open
            /\ currentData[i].open <= currentData[i].high
            /\ currentData[i].low <= currentData[i].close
            /\ currentData[i].close <= currentData[i].high)
    /\ [][\A ticks \in ChartSnapshots :
            (updateLatestTicks(ticks) /\ reachesLastBar(ticks)) =>
                LET price == tickOf(ticks).price
                    before == lastBar(currentData)
                    after == lastBar(currentData')
                IN  /\ after.close = price
                    /\ after.high = Max2(before.high, price)
                    /\ after.low = Min2(before.low, price)]_vars

\* C7 witness: a live update has rewritten the last bar and pulled its low
\* below its open, the close being the live price.
C7_Witness ==
    /\ liveBar
    /\ Len(currentData) > 0
    /\ tickDataFor(latestTicksData, currentSymbol) # Null
    /\ lastBar(currentData).close = tickOf(latestTicksData).price
    /\ lastBar(currentData).low = lastBar(currentData).close
    /\ lastBar(currentData).low < lastBar(currentData).open

\* C8: a live price update changes only the most recent bar: after
\* Charts.updateLastBar the number of bars is unchanged, every bar other
\* than the last is unchanged, and the last bar keeps its timestamp, open
\* and volume.
C8_OnlyLastBarChanges ==
    [][\A ticks \in ChartSnapshots :
        (updateLatestTicks(ticks) /\ reachesLastBar(ticks)) =>
            /\ Len(currentData') = Len(currentData)
            /\ \A i \in 1..(Len(currentData) - 1) :
                    currentData'[i] = currentData[i]
            /\ lastBar(currentData').timestamp = lastBar(currentData).timestamp
            /\ lastBar(currentData').open = lastBar(currentData).open
            /\ lastBar(currentData').volume = lastBar(currentData).volume]_vars

\* C8 witness: a series of two bars whose last bar a live update has
\* rewritten, the live price differing from the first bar's close.
C8_Witness ==
    /\ liveBar
    /\ Len(currentData) >= 2
    /\ lastBar(currentData).close # currentData[1].close

\* C9: once a tick whose bucket_start is later than the live bar's arrives,
\* that bar is no longer modified and the tick is accounted to a new live
\* bar.
C9_LaterTickOpensNewBar ==
    [][\A ticks \in ChartSnapshots :
        (/\ updateLatestTicks(ticks)
         /\ reachesLastBar(ticks)
         /\ bucketStart(tickOf(ticks).timestamp, BarWidth)
                > lastBar(currentData).timestamp) =>
            /\ Len(currentData') = Len(currentData) + 1
            /\ currentData'[Len(currentData)] = lastBar(currentData)
            /\ lastBar(currentData').timestamp =
                    bucketStart(tickOf(ticks).timestamp, BarWidth)]_vars

(***************************************************************************)
(* Claims about stream control (SpecStream).                               *)
(***************************************************************************)
\* `list` without its k-th element
withoutIndex(list, k) ==
    [i \in 1..(Len(list) - 1) |-> IF i < k THEN list[i] ELSE list[i + 1]]

\* C10: adding or removing one symbol resubmits the whole tracked set.  When
\* a call has issued startStream, the set it carries is, for addSymbol(s),
\* the tracked symbols its status read reported followed by s, and for
\* removeSymbol(s) with s tracked, those symbols without s; and when the
\* status read reported the stream running, the call's stopStream has
\* completed before the startStream was issued.
C10_ResubmitsWholeSet ==
    \A p \in OpIds :
        ops[p].pc = "start" =>
            LET op == ops[p]
                tracked == op.status[1].symbols
            IN  /\ op.kind = "add" =>
                    /\ op.allSymbols = tracked \o <<op.symbol>>
                    /\ ~includes(tracked, op.symbol)
                    /\ endsWith(op.symbol, usdt)
                /\ (op.kind = "remove" /\ includes(tracked, op.symbol)) =>
                    /\ Len(tracked) > 1
                    /\ \E k \in 1..Len(tracked) :
                        /\ tracked[k] = op.symbol
                        /\ op.allSymbols = withoutIndex(tracked, k)
                /\ op.status[1].running => op.stopDone

\* C10 witness: one caller's addSymbol and the other's removeSymbol of a
\* tracked symbol have both issued their startStream, each after stopping a
\* running stream that tracked two symbols.
C10_Witness ==
    \E p, q \in OpIds :
        /\ ops[p].pc = "start" /\ ops[p].kind = "add"
        /\ ops[p].status[1].running /\ ops[p].stopDone
        /\ Len(ops[p].allSymbols) = 3
        /\ ops[q].pc = "start" /\ ops[q].kind = "remove"
        /\ ops[q].status[1].running /\ ops[q].stopDone
        /\ Len(ops[q].status[1].symbols) = 2
        /\ Len(ops[q].allSymbols) = 1

(***************************************************************************)
(* Claims about the Alert Evaluator (SpecAlert).                           *)
(***************************************************************************)
\* the rule is enabled with operator > and the metric has been above the
\* threshold in every cycle of the current run
inRunAbove == alertRule.operator = ">" /\ alertRule.enabled /\ run.len >= 1

\* the trigger events published and not yet shown by the page
RECURSIVE pendingEvents(_)
pendingEvents(msgs) ==
    IF msgs = <<>> THEN 0 ELSE Len(Head(msgs)) + pendingEvents(Tail(msgs))

NoDuplicates(s) == \A i, j \in 1..Len(s) : i < j => s[i] # s[j]

\* every tick a drain has taken, then the ticks still buffered
drainedThenBuffered == flushed \o flushTask.batch \o buffer

\* the m ticks pushed last, in push order, when hi ticks have been pushed
lastPushed(hi, m) == [i \in 1..m |-> hi - m + i]

\* C2: under any interleaving of pushes and drains no pushed tick is lost
\* (it is buffered, was returned by a drain, or was evicted by overflow),
\* no tick is returned twice, two consecutive drains share no tick; a drain
\* returns exactly the ticks buffered at the instant it takes them and
\* leaves an empty buffer, into which later pushes go.
C2_DrainNeitherLosesNorDuplicates ==
    /\ [](/\ NoDuplicates(drainedThenBuffered)
          /\ SeqRange(drainedThenBuffered) \cap evicted = {}
          /\ SeqRange(drainedThenBuffered) \cup evicted = 1..pushCount
          /\ Len(drained) = 2 =>
                SeqRange(drained[1]) \cap SeqRange(drained[2]) = {})
    /\ [][drainTakes => (flushTask'.batch = buffer /\ buffer' = <<>>)]_vars
    /\ [][(pushTick /\ flushTask.pc = "taken") =>
            /\ flushTask'.batch = flushTask.batch
            /\ buffer'[Len(buffer')] = pushCount']_vars

\* two non-empty drains have returned, a third holds ticks, and a push has
\* landed in the fresh buffer meanwhile
C2_Witness ==
    /\ Len(drained) = 2 /\ drained[1] # <<>> /\ drained[2] # <<>>
    /\ flushTask.pc = "taken" /\ flushTask.batch # <<>>
    /\ buffer # <<>>

\* C3: after n pushes without a drain the buffer holds the last
\* min(n, Capacity) ticks in push order, never more than Capacity; drain
\* returns them and leaves occupancy 0; with capacity 3 and pushes A,B,C,D
\* drain returns [B,C,D].
C3_DrainReturnsNewestInOrder ==
    /\ [](/\ Len(buffer) <= Capacity
          /\ buffer = lastPushed(pushCount, Min2(sinceDrain, Capacity))
          /\ flushTask.pc = "taken" =>
                flushTask.batch = lastPushed(pushCount - sinceDrain,
                                             Min2(batchPushes, Capacity))
          /\ drain(pushAll(<<>>, 3, <<"A", "B", "C", "D">>))
                = [returned |-> <<"B", "C", "D">>, buffer |-> <<>>])
    /\ [][drainTakes => Len(buffer') = 0]_vars

\* a drain has taken a buffer that had overflowed
C3_Witness ==
    /\ flushTask.pc = "taken"
    /\ batchPushes > Capacity
    /\ Len(flushTask.batch) = Capacity
    /\ buffer = <<>>

(***************************************************************************)
(* Claims about the Tick Store (SpecStore).                                *)
(***************************************************************************)
QuerySymbols == {toUpperCase(btcusdt), toUpperCase(ethusdt)}
QueryTimes == 0..(MaxTradeId \div 2 + 1)
QueryLimits == {Null, Some(1)}

sameQueries(a, b) ==
    \A symbol \in QuerySymbols, start \in QueryTimes, end \in QueryTimes,
       limit \in QueryLimits :
        query(a, symbol, start, end, limit) = query(b, symbol, start, end, limit)

\* C4: whatever has been appended, and however often, the store holds one
\* tick per (symbol, trade_id) handed to it and answers every query as if
\* each had been handed to it once; writing an already stored
\* (symbol, trade_id) changes neither the store's size nor any query, and
\* the rest of the batch is still written.
C4_ReappendIsNoOp ==
    /\ [](/\ Len(store) = Cardinality(appendedKeys)
          /\ keysOf(store) = appendedKeys
          /\ sameQueries(store, onceStore))
    /\ [][(writeTick /\ keyOf(Head(appendBatch)) \in keysOf(store)) =>
            /\ Len(store') = Len(store)
            /\ sameQueries(store', store)
            /\ appendBatch' = Tail(appendBatch)]_vars

\* a stored tick has been appended again, and the store holds ticks written
\* against their timestamp order
C4_Witness ==
    /\ reappended
    /\ \E i, j \in 1..Len(store) :
        i < j /\ store[i].timestamp > store[j].timestamp

(***************************************************************************)
(* Claims about the Resampler (SpecResample).                              *)
(***************************************************************************)
bucketsOf(ticks, W) ==
    {bucketStart(ticks[k].timestamp, W) : k \in 1..Len(ticks)}

\* C5: for ticks with strictly increasing timestamps and interval width W,
\* the bars' bucket_start values are multiples of W and non-decreasing in
\* output order, there is a bar for exactly the buckets that hold a tick,
\* every bar has low <= close <= high, and the incrementally kept bars are
\* these bars; ticks 100 at 0 s, 110 at 30 s, 90 at 45 s at W = 60 s give
\* the one bar open 100, high 110, low 90, close 90, bucket_start 0.
C5_BucketsAlignedAndOrdered ==
    LET W == resWidth
        bars == getBars(resTicks, W)
    IN  /\ \A i \in 1..Len(bars) : bars[i].bucket_start % W = 0
        /\ \A i, j \in 1..Len(bars) :
            i < j => bars[i].bucket_start <= bars[j].bucket_start
        /\ {bars[i].bucket_start : i \in 1..Len(bars)} = bucketsOf(resTicks, W)
        /\ Len(bars) = Cardinality(bucketsOf(resTicks, W))
        /\ \A i \in 1..Len(bars) :
            bars[i].low <= bars[i].close /\ bars[i].close <= bars[i].high
        /\ liveBars = bars
        /\ getBars(<<[timestamp |-> 0, price |-> 100, size |-> 1],
                     [timestamp |-> 30, price |-> 110, size |-> 1],
                     [timestamp |-> 45, price |-> 90, size |-> 1]>>, 60)
            = <<[bucket_start |-> 0, open |-> 100, high |-> 110,
                 low |-> 90, close |-> 90, volume |-> 3]>>

\* two bars with an empty bucket between them, the first one made of two
\* ticks and closed below its high
C5_Witness ==
    /\ Len(liveBars) = 2
    /\ liveBars[2].bucket_start - liveBars[1].bucket_start > resWidth
    /\ liveBars[1].close < liveBars[1].high
    /\ liveBars[1].volume > 1

(***************************************************************************)
(* Claims about the page across stream restarts (SpecTracked).             *)
(***************************************************************************)
\* the page has handled an analytics update of the stream as it now runs
pageInformed ==
    /\ server.running
    /\ dropdownsInitialized
    /\ availableSymbols = server.symbols
    /\ \A k \in DOMAIN latestTicksData : includes(server.symbols, toLowerCase(k))

\* C11: once the stream has been stopped and started with a different
\* symbol set and the page has been told, the page keeps no state of a
\* symbol that is no longer tracked: the last seen prices, the selectable
\* symbols, the charted symbol and its bar series are all of tracked
\* symbols.
C11_NoResidualState ==
    pageInformed =>
        /\ \A k \in DOMAIN lastPrices : includes(server.symbols, toLowerCase(k))
        /\ \A i \in 1..Len(symbolOptions) :
                includes(server.symbols, symbolOptions[i])
        /\ currentSymbol # Null => includes(server.symbols, currentSymbol)
        /\ currentSymbol = Null => currentData = <<>>

(***************************************************************************)
(* Claims about live chart updates over time (SpecLive).                   *)
(***************************************************************************)
\* C12: chart redraws driven by live ticks are throttled: whatever the
\* arrival pattern of ticks of the charted symbol, a redraw of the live
\* price line comes at least updateThrottle ms after the previous one, and
\* so does a redraw of the last candlestick.
C12_RedrawsThrottled ==
    [][\A ticks \in LiveSnapshots :
        (updateLatestTicks(ticks) /\ reachesLastBar(ticks)) =>
            /\ (/\ drawsLivePrice(currentData, lastUpdateTime, plot, now)
                /\ lineDrawnAt # Null)
                    => now - lineDrawnAt[1] >= updateThrottle
            /\ (/\ restylesLastBar(currentData, plot)
                /\ barDrawnAt # Null)
                    => now - barDrawnAt[1] >= updateThrottle]_vars

(***************************************************************************)
(* Claims about the WebSocket client (SpecSocket).                         *)
(***************************************************************************)
\* C13: reconnection is bounded: at most 10 consecutive reconnection
\* attempts are made without an intervening successful open, no further
\* attempt is scheduled once the 10th consecutive attempt has failed, and
\* a successful open resets the attempt count to 0.
C13_BoundedReconnects ==
    /\ Len(attemptDelays) <= 10
    /\ reconnectAttempts = Len(attemptDelays)
    /\ Len(attemptDelays) = 10 => reconnectTimer = Null
    /\ ws = "OPEN" => reconnectAttempts = 0

\* the 10th consecutive attempt has failed
C13_Witness ==
    /\ Len(attemptDelays) = 10
    /\ ws = "CLOSED"
    /\ reconnectTimer = Null

\* C14: reconnection backs off exponentially: the k-th consecutive attempt
\* (k = 1..10) is scheduled with a delay of min(1000 * 2^(k-1), 30000) ms,
\* reconnectDelay is always within [1000, 30000], and it is 1000 again
\* after a successful open.
C14_ExponentialBackoff ==
    /\ \A k \in 1..Len(attemptDelays) :
            /\ k <= 10
            /\ attemptDelays[k] =
                  (IF 1000 * 2^(k-1) <= 30000 THEN 1000 * 2^(k-1) ELSE 30000)
    /\ reconnectTimer # Null =>
            LET k == Len(attemptDelays) + 1 IN
            reconnectTimer[1] =
                (IF 1000 * 2^(k-1) <= 30000 THEN 1000 * 2^(k-1) ELSE 30000)
    /\ reconnectDelay >= 1000 /\ reconnectDelay <= 30000
    /\ ws = "OPEN" => reconnectDelay = 1000

\* ten attempts were made, the sixth and later ones at the cap; and the
\* socket opened after failed attempts
C14_Witness ==
    /\ Len(attemptDelays) = 10
    /\ attemptDelays[5] = 16000
    /\ attemptDelays[6] = 30000
    /\ attemptDelays[10] = 30000

\* C15: a received message that fails to parse is logged and dropped: no
\* analytics or alerts handler is invoked for it, the connection state is
\* unchanged, and a well-formed message received later is still dispatched
\* (an analytics_update to the analytics handlers, and to the alerts
\* handlers when it carries alerts).
C15_MalformedDropped ==
    /\ [][\A data \in {<<"{">>,
                      <<"{", "type", ":", "analytics_update">>,
                      <<"{", "type", ":", "analytics_update", "}", "}">>,
                      <<"[", "a1", ",", "]">>} :
            onmessage(data) =>
                /\ invoked' = invoked
                /\ parseErrors' = parseErrors + 1
                /\ ws' = "OPEN"
                /\ UNCHANGED <<reconnectDelay, reconnectAttempts,
                               reconnectTimer, pingInterval,
                               liveIndicator>>]_vars
    /\ [][(parseErrors > 0 /\ onmessage(
              <<"{", "type", ":", "analytics_update", "}">>)) =>
                /\ invoked'.analytics = invoked.analytics + 1
                /\ invoked'.alerts = invoked.alerts]_vars
    /\ [][(parseErrors > 0 /\ onmessage(
              <<"{", "type", ":", "analytics_update", ",", "alerts", ":",
                "[", "a1", "]", "}">>)) =>
                /\ invoked'.analytics = invoked.analytics + 1
                /\ invoked'.alerts = invoked.alerts + 1]_vars
    /\ [](recovered => parseErrors > 0 /\ invoked.analytics > 0)

\* a frame failed to parse and a later frame was dispatched
C15_Witness ==
    /\ parseErrors = 1
    /\ recovered
    /\ invoked.alerts = 1
    /\ ws = "OPEN"

\* C16: for a window with mean m > 0, standard deviation s > 0 and live
\* price p, the z-score shown is (p - m) / s, the percent change is
\* (p - m) / m * 100 (relative to the window mean) and the distance from the
\* mean is p - m; for m = 100, s = 10, p = 125 they are 2.5, +25% and +25.
\* With the mean mn/md, the variance vn/vd and the z-score kept as its
\* sign and its square zn/zd, the equations are cross-multiplied.
C16_LiveMetrics ==
    /\ (/\ liveStats # Null
        /\ liveStats[1].liveStatPrice # Null
        /\ liveStats[1].mean.num > 0
        /\ liveStats[1].variance.num > 0)
       => LET st == liveStats[1]
              p == st.liveStatPrice[1]
              mn == st.mean.num
              md == st.mean.den
              vn == st.variance.num
              vd == st.variance.den
              d == p * md - mn
          IN  /\ st.zScore.kind = "finite"
              /\ st.zScore.num * md * md * vn = st.zScore.den * d * d * vd
              /\ st.zScore.sign = Sign(d)
              /\ st.percentChange.kind = "finite"
              /\ st.percentChange.num * mn = st.percentChange.den * d * 100
              /\ st.distanceMean.num * md = st.distanceMean.den * d
    /\ LET st == updateLiveStatPrice(EmptyStats,
                    <<FlatBar(90), FlatBar(110)>>, 125)
       IN  /\ st.mean.num = 100 * st.mean.den
           /\ st.variance.num = 10 * 10 * st.variance.den
           /\ st.zScore.kind = "finite" /\ st.zScore.sign = 1
           /\ 4 * st.zScore.num = 25 * st.zScore.den
           /\ st.percentChange.kind = "finite"
           /\ st.percentChange.num = 25 * st.percentChange.den
           /\ st.distanceMean.num = 25 * st.distanceMean.den

\* the panel shows a price off the mean of a window that has a spread
C16_Witness ==
    /\ liveStats # Null
    /\ liveStats[1].liveStatPrice # Null
    /\ liveStats[1].mean.num > 0
    /\ liveStats[1].variance.num > 0
    /\ liveStats[1].zScore.num > 0
    /\ liveStats[1].zScore.sign = -1

RECURSIVE SumOfSquares(_)
SumOfSquares(s) == IF Len(s) = 0 THEN 0 ELSE s[1] * s[1] + SumOfSquares(Tail(s))

\* the panel st shows the statistics of the closes `prices`: the arithmetic
\* mean S / n, the population variance (n * sum of p^2 - S^2) / n^2, and
\* the extrema
showsPopulationStats(prices, st) ==
    LET n == Len(prices)
        S == SumSeq(prices)
        Q == SumOfSquares(prices)
    IN  /\ st.mean.num * n = st.mean.den * S
        /\ st.variance.num * n * n = st.variance.den * (n * Q - S * S)
        /\ n > 1 /\ n * Q # S * S =>
             st.variance.num * n * (n - 1) # st.variance.den * (n * Q - S * S)
        /\ st.min \in SeqRange(prices) /\ \A i \in 1..n : st.min <= prices[i]
        /\ st.max \in SeqRange(prices) /\ \A i \in 1..n : st.max >= prices[i]
        /\ st.min * st.mean.den <= st.mean.num
        /\ st.mean.num <= st.max * st.mean.den

\* C17: for any sequence of n >= 1 closes, the standard deviation shown is
\* the population standard deviation (the variance is the sum of
\* (p_i - mean)^2 divided by n, not by n - 1), the mean is the arithmetic
\* mean, and min and max are the extrema of the same sequence, so
\* min <= mean <= max.  The panel is filled from the loaded series, and by
\* each live update from the charted series as it is before the update
\* moves the last bar.  A load leaves its response in currentData and a
\* live update leaves its snapshot in latestTicksData, so each step is
\* recognised from its own result.
C17_PopulationStatistics ==
    /\ [][(loadChartDataResumes(btcusdt, currentData')
                /\ Len(currentData') > 0)
            => showsPopulationStats(closesOf(currentData'),
                                    liveStats'[1])]_vars
    /\ [][(updateLatestTicks(latestTicksData')
                /\ reachesLastBar(latestTicksData') /\ liveStats # Null)
            => showsPopulationStats(closesOf(currentData),
                                    liveStats'[1])]_vars
    /\ [](LET st == updateLiveStatPrice(EmptyStats,
                      [i \in 1..8 |-> FlatBar(<<2, 4, 4, 4, 5, 5, 7, 9>>[i])],
                      5)
          IN  /\ st.mean.num = 5 * st.mean.den
              /\ st.variance.num = 4 * st.variance.den
              /\ st.min = 2 /\ st.max = 9)

\* the panel shows a window whose closes differ
C17_Witness ==
    /\ liveStats # Null
    /\ liveStats[1].variance.num > 0
    /\ liveStats[1].min < liveStats[1].max
    /\ liveBar

\* C18: when a latest tick for the selected symbol has been received, the
\* live price shown when its chart is loaded is that tick's price; the
\* close of the last bar is used only when no tick for the symbol is
\* available.
C18_LoadShowsLatestTick ==
    [][\A ohlcvData \in LiveResponses :
        (loadChartDataResumes(btcusdt, ohlcvData) /\ Len(ohlcvData) > 0) =>
            LET tick == tickDataFor(latestTicksData, btcusdt) IN
            /\ tick # Null =>
                  /\ currentPrice' = Some(tick[1].price)
                  /\ liveStats'[1].liveStatPrice = Some(tick[1].price)
            /\ tick = Null =>
                  currentPrice' = Some(ohlcvData[Len(ohlcvData)].close)]_vars

C20_MalformedRuleRejected ==
    /\ [][(/\ createAlertCall
           /\ \/ \A i \in 1..Len(alertName) : alertName[i] = " "
              \/ alertSymbol = Null
              \/ alertThreshold \in {<<>>, <<" ">>, <<"x">>, <<"-">>, <<".">>,
                                     <<"x", "1">>})
            => /\ createCall'.pc = "idle"
               /\ createCall'.data = Null
               /\ serverAlerts' = serverAlerts
               /\ appAlerts' = appAlerts]_vars
    /\ [](/\ createCall.pc = "idle" => createCall.data = Null
          /\ \A i \in 1..Len(serverAlerts) :
                /\ serverAlerts[i].name = <<"a">>
                /\ serverAlerts[i].condition.symbol = btcusdt
                /\ serverAlerts[i].condition.threshold \in
                      {[num |-> 1, den |-> 1], [num |-> -2, den |-> 1],
                       [num |-> 5, den |-> 10]})

\* a form with a name and a symbol but a threshold that is no number was
\* refused, after a rule had been created
C20_Witness ==
    /\ formToast = "warning"
    /\ alertName = <<"a">>
    /\ alertSymbol = btcusdt
    /\ alertThreshold = <<"x">>
    /\ createCall = NoCall
    /\ Len(serverAlerts) = 1

(***************************************************************************)
(* Claims about the flush flag of the ingestion buffer (SpecFlush).        *)
(***************************************************************************)
\* the flush task's drain takes the buffer in this step
drainStep == flushTask.pc = "called" /\ flushTask'.pc = "taken"

\* a push lands in this step
pushStep == pushCount' = pushCount + 1

C22_NoAttemptAfterDisconnect ==
    [][(disconnected /\ disconnected')
            => (connectCalls' = connectCalls
                    /\ Len(sockets') = Len(sockets))]_vars

\* C23: at most one socket is live, at most one ping timer runs, and a ping
\* timer runs only while the socket that set it is this.ws and is open.
C23_OneSocketOnePing ==
    /\ Cardinality({s \in DOMAIN sockets : sockets[s] \in Live}) <= 1
    /\ Cardinality(pingTimers) <= 1
    /\ \A s \in pingTimers : thisWs = s /\ sockets[s] = "OPEN"

(***************************************************************************)
(* Claims about overlapping and failing addSymbol / removeSymbol calls     *)
(* (SpecAddPair, SpecStream).                                              *)
(***************************************************************************)
\* C24: once the addSymbol calls for adausdt and for ethusdt have both
\* completed with success, the tracked set contains both symbols.
C24_BothAdded ==
    (ops["c1"] = IdleOp("added") /\ ops["c2"] = IdleOp("added"))
        => (includes(server.symbols, adausdt)
                /\ includes(server.symbols, ethusdt))

\* C25: a call that fails, with no other call under way, leaves the stream
\* as the call found it: running with the set its status request reported.
C25_FailureLeavesStream ==
    [][\A p \in OpIds :
          (/\ \A q \in OpIds \ {p} : ops[q] = IdleOp("none")
           /\ ops[p].pc # "idle"
           /\ ops[p].status # Null
           /\ ops'[p] = IdleOp("error"))
              => server' = ops[p].status[1]]_vars

\* C27: a removeSymbol call whose status request reports at most one symbol
\* returns without a stop or start request; a call that goes on to stop and
\* start the stream read at least two symbols and submits a non-empty set.
C27_RemoveKeepsOne ==
    \A p \in OpIds :
        (ops[p].kind = "remove" /\ ops[p].pc \in {"stop", "delay", "start"})
            => (/\ Len(ops[p].status[1].symbols) > 1
                /\ Len(ops[p].allSymbols) >= 1)

\* one caller was refused the removal of the last symbol while the other is
\* about to start the stream with the one symbol left of two
C27_Witness ==
    \E p, q \in OpIds :
        /\ ops[p] = IdleOp("cannot remove the last symbol")
        /\ ops[q].kind = "remove" /\ ops[q].pc = "start"
        /\ Len(ops[q].status[1].symbols) = 2
        /\ Len(ops[q].allSymbols) = 1

\* C28: an addSymbol call that has a request under way, and so any call that
\* issues a stop or start request, was given an input that is non-empty
\* after trimming and ends with 'usdt', and once past its status request
\* the symbol was not in the set that request reported.
C28_AddRefusedWithoutRestart ==
    \A p \in OpIds :
        /\ (ops[p].kind = "add" /\ ops[p].pc # "idle")
              => (Len(ops[p].symbol) > 0 /\ endsWith(ops[p].symbol, usdt))
        /\ (ops[p].kind = "add" /\ ops[p].pc \in {"stop", "delay", "start"})
              => ~includes(ops[p].status[1].symbols, ops[p].symbol)

\* one caller's input was refused for its ending, the other's for naming a
\* symbol that is tracked, and the stream is as it was
C28_Witness ==
    /\ ops["c1"] = IdleOp("should end with usdt")
    /\ ops["c2"] = IdleOp("already tracked")
    /\ server = serverStart(<<btcusdt>>)

(***************************************************************************)
(* Claim about overlapping loadChartData calls (SpecLoadPair).             *)
(***************************************************************************)
\* C26: once every loadChartData call has completed, the chart is that of
\* the symbol selected last: Charts.currentSymbol is the dropdown's symbol
\* and Charts.currentData is the series answered for it.
C26_LastSelectionCharted ==
    (pendingLoads = {} /\ dataSymbol # Null)
        => (/\ currentSymbol = dataSymbol
            /\ Len(currentData) = 1
            /\ currentData[1].open = seriesOf(dataSymbol)[1].open)

(***************************************************************************)
(* Claim about the dispatch of received messages (SpecDispatch).           *)
(***************************************************************************)
\* how often the handler at place i of an event's list was called
timesCalled(log, event, i) ==
    Cardinality({k \in DOMAIN log : log[k][1] = event /\ log[k][2] = i})

\* the frame is a message of type 'analytics_update'
isAnalyticsUpdate(data) ==
    LET message == JSON_parse(data) IN
    /\ message # Null
    /\ message[1][1] = "o"
    /\ "type" \in DOMAIN message[1][2]
    /\ message[1][2]["type"] = jsString("analytics_update")

\* the frame is a message that carries a non-empty list of alerts
carriesAlerts(data) ==
    LET message == JSON_parse(data) IN
    /\ message # Null
    /\ message[1][1] = "o"
    /\ "alerts" \in DOMAIN message[1][2]
    /\ message[1][2]["alerts"][1] = "a"
    /\ message[1][2]["alerts"][2] # <<>>

\* C29: for every frame received, each handler registered for 'analytics'
\* is called exactly once if the message is of type 'analytics_update' and
\* not at all otherwise; each handler registered for 'alerts' is called
\* exactly once if that message also carries a non-empty alerts list and
\* not at all otherwise, and after every analytics handler; no other
\* handler is called.
C29_DispatchByType ==
    [][\A data \in Frames :
          onmessage(data) =>
            /\ \A i \in DOMAIN handlers.analytics :
                  timesCalled(calls', "analytics", i) =
                      IF isAnalyticsUpdate(data) THEN 1 ELSE 0
            /\ \A i \in DOMAIN handlers.alerts :
                  timesCalled(calls', "alerts", i) =
                      IF isAnalyticsUpdate(data) /\ carriesAlerts(data)
                          THEN 1 ELSE 0
            /\ \A k \in DOMAIN calls' :
                  /\ calls'[k][1] \in {"analytics", "alerts"}
                  /\ calls'[k][2] \in DOMAIN handlers[calls'[k][1]]
                  /\ calls'[k][3] = handlers[calls'[k][1]][calls'[k][2]]
            /\ \A j, k \in DOMAIN calls' :
                  (calls'[j][1] = "analytics" /\ calls'[k][1] = "alerts")
                      => j < k]_vars

\* an analytics update with alerts was handed to two analytics handlers and
\* then to one alerts handler
C29_Witness ==
    /\ Len(handlers.analytics) = 2
    /\ Len(handlers.alerts) = 1
    /\ calls = <<<<"analytics", 1, handlers.analytics[1]>>,
                 <<"analytics", 2, handlers.analytics[2]>>,
                 <<"alerts", 1, handlers.alerts[1]>>>>

=============================================================================
